---- MODULE Spec2Model ----
(***************************************************************************)
(* Booking storage on a spreadsheet document (excel_ops.py): month pages   *)
(* with a day header row and one row per device, a log page, a directory   *)
(* lock, backup + atomic replace + validation, and the book / cancel       *)
(* operations run by concurrent callers.                                   *)
(***************************************************************************)
EXTENDS Integers, Sequences, FiniteSets, TLC

(***************************************************************************)
(* Cell values.  A cell holds None, an int, a float (tenths), a date       *)
(* (yyyymmdd) or a string (a sequence of one-character tokens).  "fwN" is  *)
(* the full-width digit N, "nichi" is the kanji that follows a day number. *)
(***************************************************************************)
NoneV == [t |-> "none", n |-> 0, s |-> <<>>]
IntV(k) == [t |-> "int", n |-> k, s |-> <<>>]
FloatV(tenths) == [t |-> "float", n |-> tenths, s |-> <<>>]
StrV(chars) == [t |-> "str", n |-> 0, s |-> chars]
Date(y, m, d) == [y |-> y, m |-> m, d |-> d]
DateV(dt) == [t |-> "date", n |-> dt.y * 10000 + dt.m * 100 + dt.d, s |-> <<>>]

AsciiDigits == <<"0", "1", "2", "3", "4", "5", "6", "7", "8", "9">>
FullWidthDigits == <<"fw0", "fw1", "fw2", "fw3", "fw4", "fw5", "fw6", "fw7", "fw8", "fw9">>

\* unicodedata.normalize("NFKC", c) for one character: full-width digits fold to ASCII
Nfkc(c) ==
    IF \E i \in 1..10 : FullWidthDigits[i] = c
    THEN AsciiDigits[CHOOSE i \in 1..10 : FullWidthDigits[i] = c]
    ELSE c

IsDigit(c) == \E i \in 1..10 : AsciiDigits[i] = c
DigitVal(c) == (CHOOSE i \in 1..10 : AsciiDigits[i] = c) - 1

\* int(x) of a float given in tenths: truncation toward zero
TruncTenths(n) == IF n >= 0 THEN n \div 10 ELSE -((-n) \div 10)

StartsWith(s, prefix) ==
    /\ Len(s) >= Len(prefix)
    /\ SubSeq(s, 1, Len(prefix)) = prefix

Min(S) == CHOOSE x \in S : \A y \in S : x <= y

\* int(m.group(1)) for the match of (\d{1,2}) that starts at position i of s
DigitRun(s, i) ==
    IF i + 1 <= Len(s) /\ IsDigit(s[i + 1])
    THEN {DigitVal(s[i]) * 10 + DigitVal(s[i + 1])}
    ELSE {DigitVal(s[i])}

\* re.search(r"(\d{1,2})", s): the leftmost digit starts the match
SearchDigits(s, digitAt) == IF digitAt = {} THEN {} ELSE DigitRun(s, Min(digitAt))

\* the day of a header text already folded by NFKC
DayOfText(s) == SearchDigits(s, {i \in 1..Len(s) : IsDigit(s[i])})

\* _normalize_header_day: the empty set stands for None, {k} for the int k
_normalize_header_day(value) ==
    CASE value.t = "int" -> {value.n}
      [] value.t = "float" -> {TruncTenths(value.n)}
      [] value.t = "date" -> {value.n % 100}
      [] value.t = "str" -> DayOfText([i \in 1..Len(value.s) |-> Nfkc(value.s[i])])
      [] OTHER -> {}

(***************************************************************************)
(* Calendar and the month splitter.                                        *)
(***************************************************************************)
IsLeap(y) == (y % 4 = 0 /\ y % 100 # 0) \/ y % 400 = 0

\* calendar.monthrange(y, m)[1]
monthrange(y, m) ==
    IF m = 2 THEN (IF IsLeap(y) THEN 29 ELSE 28)
    ELSE IF m \in {4, 6, 9, 11} THEN 30 ELSE 31

\* the generator never reaches the end month when it lies before the start
\* month; MaxSpans cuts the unrolling (callers stop at the first missing page)
MaxSpans == 4

RECURSIVE IterFrom(_, _, _, _, _)
IterFrom(cur_year, cur_month, start_date, end_date, fuel) ==
    LET last_day == monthrange(cur_year, cur_month)
        span_start == IF cur_year = start_date.y /\ cur_month = start_date.m
                      THEN start_date ELSE Date(cur_year, cur_month, 1)
        final == cur_year = end_date.y /\ cur_month = end_date.m
        span_end == IF final THEN end_date ELSE Date(cur_year, cur_month, last_day)
    IN  IF final \/ fuel <= 1 THEN << <<span_start, span_end>> >>
        ELSE << <<span_start, span_end>> >> \o
             (IF cur_month = 12
              THEN IterFrom(cur_year + 1, 1, start_date, end_date, fuel - 1)
              ELSE IterFrom(cur_year, cur_month + 1, start_date, end_date, fuel - 1))

\* a splitter whose last pair runs to the end of its month
IterToMonthEnd(start_date, end_date) ==
    [i \in 1..Len(IterFrom(start_date.y, start_date.m, start_date, end_date, MaxSpans)) |->
        <<IterFrom(start_date.y, start_date.m, start_date, end_date, MaxSpans)[i][1],
          Date(IterFrom(start_date.y, start_date.m, start_date, end_date, MaxSpans)[i][2].y,
               IterFrom(start_date.y, start_date.m, start_date, end_date, MaxSpans)[i][2].m,
               monthrange(IterFrom(start_date.y, start_date.m, start_date, end_date,
                                   MaxSpans)[i][2].y,
                          IterFrom(start_date.y, start_date.m, start_date, end_date,
                                   MaxSpans)[i][2].m))>>]

\* a splitter that stops after the first month
IterFirstMonthOnly(start_date, end_date) ==
    <<Head(IterFrom(start_date.y, start_date.m, start_date, end_date, MaxSpans))>>

_iter_month_ranges(start_date, end_date) ==
    IterFrom(start_date.y, start_date.m, start_date, end_date, MaxSpans)

\* 'yy年M月': the last two digits of the year and the month
_get_month_sheet_name(target_date) == <<target_date.y % 100, target_date.m>>

(***************************************************************************)
(* ISO dates of the log page: strftime("%Y-%m-%d") and strptime.           *)
(***************************************************************************)
Digit(k) == AsciiDigits[k + 1]
Digits2(k) == <<Digit((k \div 10) % 10), Digit(k % 10)>>
Digits4(k) == <<Digit((k \div 1000) % 10), Digit((k \div 100) % 10)>> \o Digits2(k)

strftime(dt) == Digits4(dt.y) \o <<"-">> \o Digits2(dt.m) \o <<"-">> \o Digits2(dt.d)

\* datetime.strptime(s, "%Y-%m-%d").date(); ok = FALSE stands for the ValueError
strptime(s) ==
    LET shaped == /\ Len(s) = 10
                  /\ s[5] = "-" /\ s[8] = "-"
                  /\ \A i \in {1, 2, 3, 4, 6, 7, 9, 10} : IsDigit(s[i])
        y == DigitVal(s[1]) * 1000 + DigitVal(s[2]) * 100 + DigitVal(s[3]) * 10 + DigitVal(s[4])
        m == DigitVal(s[6]) * 10 + DigitVal(s[7])
        d == DigitVal(s[9]) * 10 + DigitVal(s[10])
    IN  IF shaped /\ y >= 1 /\ m \in 1..12 /\ d >= 1 /\ d <= monthrange(y, m)
        THEN [ok |-> TRUE, date |-> Date(y, m, d)]
        ELSE [ok |-> FALSE, date |-> Date(1, 1, 1)]


(***************************************************************************)
(* Month pages.  A sheet is row7 and row8 (the rows 7 and 8 from column 3  *)
(* on), names (column B from row 9 on) and cells, the non-empty cells of   *)
(* the device rows keyed by <<row, column>>, as the library keeps them.    *)
(* Row and column numbers are the sheet's; 0 stands for None.              *)
(***************************************************************************)
max_column(sheet) == Len(sheet.row8) + 2

max_row(sheet) ==
    IF Len(sheet.names) > 0 THEN 8 + Len(sheet.names)
    ELSE IF \E c \in 1..Len(sheet.row8) : sheet.row8[c] # NoneV THEN 8
    ELSE IF \E c \in 1..Len(sheet.row7) : sheet.row7[c] # NoneV THEN 7
    ELSE 1

\* sheet.cell(row=row, column=col).value for row >= 7, column >= 3
CellValue(sheet, row, col) ==
    IF row = 7 THEN sheet.row7[col - 2]
    ELSE IF row = 8 THEN sheet.row8[col - 2]
    ELSE IF <<row, col>> \in DOMAIN sheet.cells THEN sheet.cells[<<row, col>>]
    ELSE NoneV

\* the value of the first iteration that returns; 0 when the loop falls through
FirstOf(S) == IF S = {} THEN 0 ELSE Min(S)

_find_device_row(sheet, device_name) ==
    FirstOf({row \in 9..max_row(sheet) : sheet.names[row - 8] = StrV(device_name)})

\* columns of one header row whose normalized value is the day
HeaderDay(sheet, hdr_row, col) ==
    IF hdr_row = 8 THEN sheet.day8[col - 2]
    ELSE IF hdr_row = 7 THEN sheet.day7[col - 2]
    ELSE _normalize_header_day(CellValue(sheet, hdr_row, col))

\* one scan of a header row: the first column whose day matches; 0 when none
ScanHeaderRow(sheet, hdr_row, day) ==
    FirstOf({col \in 3..max_column(sheet) : HeaderDay(sheet, hdr_row, col) = {day}})

\* a fallback row is scanned only when it lies within the sheet
ScanFallbackRow(sheet, hdr_row, day) ==
    IF hdr_row <= max_row(sheet) THEN ScanHeaderRow(sheet, hdr_row, day) ELSE 0

\* the first scan that returns a column
OrElse(col, later) == IF col # 0 THEN col ELSE later

\* row 8 first, then the fallback rows 7, 9, 10
_get_date_column(sheet, day) ==
    OrElse(ScanHeaderRow(sheet, 8, day),
           OrElse(ScanFallbackRow(sheet, 7, day),
                  OrElse(ScanFallbackRow(sheet, 9, day),
                         ScanFallbackRow(sheet, 10, day))))

\* the length of range(start_date.day, end_date.day + 1)
SpanDays(start_date, end_date) ==
    IF end_date.d >= start_date.d THEN end_date.d - start_date.d + 1 ELSE 0

\* ok = FALSE stands for the ValueError of a day without column
AllResolved(cols) == [ok |-> \A i \in DOMAIN cols : cols[i] # 0, columns |-> cols]

\* a resolver that leaves out the days without column
GetDateColumnsFound(sheet, start_date, end_date) ==
    [ok |-> TRUE,
     columns |-> SelectSeq([i \in 1..SpanDays(start_date, end_date) |->
                              _get_date_column(sheet, start_date.d + i - 1)],
                           LAMBDA col : col # 0)]

_get_date_columns(sheet, start_date, end_date) ==
    AllResolved([i \in 1..SpanDays(start_date, end_date) |->
                    _get_date_column(sheet, start_date.d + i - 1)])

Range(f) == {f[i] : i \in DOMAIN f}

(***************************************************************************)
(* Page layouts.  book and cancel never write a header or a device name,   *)
(* so a document carries the name of its layout and the layout's rows 7,   *)
(* 8 and column B are looked up here.                                      *)
(***************************************************************************)
DevA == <<"F", "E", "A">>
DevB == <<"F", "E", "B">>
Devices == {DevA, DevB}

\* header encodings of a day: int, full-width digit string, digits + kanji
HeaderInt(day) == IntV(day)
HeaderFullWidth(day) ==
    StrV(IF day >= 10
         THEN <<FullWidthDigits[(day \div 10) + 1], FullWidthDigits[(day % 10) + 1]>>
         ELSE <<FullWidthDigits[day + 1]>>)
HeaderKanji(day) ==
    StrV((IF day >= 10 THEN Digits2(day) ELSE <<Digit(day)>>) \o <<"nichi">>)
HeaderMixed(day) ==
    IF day % 3 = 0 THEN HeaderInt(day)
    ELSE IF day % 3 = 1 THEN HeaderFullWidth(day) ELSE HeaderKanji(day)

Blank(n) == [c \in 1..n |-> NoneV]

\* a page with the day headers in row 8
StdPage(headers, devs) ==
    [row7 |-> Blank(Len(headers)),
     row8 |-> headers,
     names |-> [r \in 1..Len(devs) |-> StrV(devs[r])]]

\* a page whose header row drifted to row 7
DriftPage(headers, devs) ==
    [row7 |-> headers,
     row8 |-> Blank(Len(headers)),
     names |-> [r \in 1..Len(devs) |-> StrV(devs[r])]]

Dec24 == <<24, 12>>
Jan25 == <<25, 1>>
Feb25 == <<25, 2>>

\* the layout of the tests' workbooks: headers in row 8
LayoutStd ==
    (Dec24 :> StdPage([c \in 1..31 |-> HeaderInt(c)], <<DevA, DevB>>)
     @@ Jan25 :> StdPage([c \in 1..31 |-> HeaderMixed(c)], <<DevA, DevB>>)
     @@ Feb25 :> StdPage([c \in 1..28 |-> HeaderInt(c)], <<DevA>>))

\* a layout whose January page has its headers in row 7
LayoutDrift ==
    (Dec24 :> StdPage([c \in 1..31 |-> HeaderInt(c)], <<DevA, DevB>>)
     @@ Jan25 :> DriftPage([c \in 1..31 |-> HeaderInt(c)], <<DevA, DevB>>)
     @@ Feb25 :> StdPage([c \in 1..28 |-> HeaderInt(c)], <<DevA>>))

Layout(name) == IF name = "std" THEN LayoutStd ELSE LayoutDrift

NormPage(pg) == [day7 |-> [c \in DOMAIN pg.row7 |-> _normalize_header_day(pg.row7[c])],
                 day8 |-> [c \in DOMAIN pg.row8 |-> _normalize_header_day(pg.row8[c])]]
NormStd == [s \in DOMAIN LayoutStd |-> NormPage(LayoutStd[s])]
NormDrift == [s \in DOMAIN LayoutDrift |-> NormPage(LayoutDrift[s])]
Norm(name) == IF name = "std" THEN NormStd ELSE NormDrift

(***************************************************************************)
(* The document: its layout, the non-empty device cells of each month      *)
(* page, the log page and whether the file is a readable archive.  intact  *)
(* is "ok", "zip" (not a valid archive) or "sheets" (the workbook does not *)
(* open with its pages).                                                   *)
(***************************************************************************)
NoCells == [k \in {} |-> NoneV]

\* wb.sheetnames without the log page
SheetNames(doc) == DOMAIN doc.cells

\* wb[sheet_name]
Sheet(doc, sheet_name) ==
    [row7 |-> Layout(doc.layout)[sheet_name].row7,
     row8 |-> Layout(doc.layout)[sheet_name].row8,
     names |-> Layout(doc.layout)[sheet_name].names,
     day7 |-> Norm(doc.layout)[sheet_name].day7,
     day8 |-> Norm(doc.layout)[sheet_name].day8,
     cells |-> doc.cells[sheet_name]]

Loadable(doc) == doc.intact = "ok"

\* the device row and the day columns of a span, or the ValueError raised
Located(device_row, cols) ==
    IF device_row = 0 THEN [err |-> "nodevice", row |-> 0, columns |-> {}]
    ELSE IF ~cols.ok THEN [err |-> "noday", row |-> 0, columns |-> {}]
    ELSE [err |-> "", row |-> device_row, columns |-> Range(cols.columns)]

\* the lookups check_availability and book make on the page of a span
Locate(sheet, device_name, m_start, m_end) ==
    Located(_find_device_row(sheet, device_name),
            _get_date_columns(sheet, m_start, m_end))

\* the page of the span, then its row and columns
LocateSpan(doc, device_name, m_start, m_end) ==
    IF _get_month_sheet_name(m_start) \notin SheetNames(doc)
    THEN [err |-> "nosheet", row |-> 0, columns |-> {}]
    ELSE Locate(Sheet(doc, _get_month_sheet_name(m_start)), device_name, m_start, m_end)

\* a check that never looks at the cells
CellsStatusUnread(sheet, at) == IF at.err # "" THEN at.err ELSE "ok"

\* "busy" when a located cell is not None
CellsStatus(sheet, at) ==
    IF at.err # "" THEN at.err
    ELSE IF \E col \in at.columns : CellValue(sheet, at.row, col) # NoneV THEN "busy"
    ELSE "ok"

\* one span of check_availability: "ok" when every cell of the span is empty
SpanStatus(doc, device_name, m_start, m_end) ==
    CellsStatus(Sheet(doc, _get_month_sheet_name(m_start)),
                LocateSpan(doc, device_name, m_start, m_end))

\* a loop in which a non-empty cell of any span wins over a failed lookup
FirstVerdictBusyWins(st, bad) ==
    IF bad = {} THEN "true"
    ELSE IF \E i \in bad : st[i] = "busy" THEN "false"
    ELSE st[Min(bad)]

\* the loop over the spans returns or raises at the first span that is not free
FirstVerdict(st, bad) ==
    IF bad = {} THEN "true"
    ELSE IF st[Min(bad)] = "busy" THEN "false"
    ELSE st[Min(bad)]

SpansVerdict(st) == FirstVerdict(st, {i \in DOMAIN st : st[i] # "ok"})

SpanStatuses(doc, device_name, spans) ==
    [i \in 1..Len(spans) |-> SpanStatus(doc, device_name, spans[i][1], spans[i][2])]

\* check_availability: "true", "false", or the error raised
check_availability(doc, device_name, start_date, end_date) ==
    IF ~Loadable(doc) THEN "unreadable"
    ELSE SpansVerdict(SpanStatuses(doc, device_name,
                                   _iter_month_ranges(start_date, end_date)))

(***************************************************************************)
(* find_available_device                                                   *)
(***************************************************************************)
\* if name: a device-name cell counts when it is neither None nor ''
Truthy(value) ==
    CASE value.t = "none" -> FALSE
      [] value.t = "str" -> value.s # <<>>
      [] OTHER -> value.n # 0

\* _iter_device_rows: str(name) of column B from row 9 on, in row order (the
\* device names of the pages are strings)
_iter_device_rows(sheet) ==
    [i \in 1..Len(SelectSeq(sheet.names, Truthy)) |->
        SelectSeq(sheet.names, Truthy)[i].s]

\* candidates taken whatever their name
CandidatesAnyName(start_sheet, device_type) == _iter_device_rows(start_sheet)

\* the names of the start month's page that start with device_type
Candidates(start_sheet, device_type) ==
    SelectSeq(_iter_device_rows(start_sheet),
              LAMBDA name : StartsWith(name, device_type))

\* the loop over the spans for each candidate: "true" (ok stayed True),
\* "false" (a cell was not None) or the ValueError raised
CandidateVerdicts(doc, candidates, spans) ==
    [i \in 1..Len(candidates) |->
        SpansVerdict(SpanStatuses(doc, candidates[i], spans))]

\* a search that returns the first candidate without looking at its cells
FirstCandidateUnchecked(candidates, verdicts, decided) ==
    IF Len(candidates) = 0 THEN [err |-> "", device |-> <<>>]
    ELSE [err |-> "", device |-> candidates[1]]

\* the first candidate whose loop did not end with ok = False decides: it is
\* returned, or its ValueError is raised; device <<>> stands for None
FirstCandidate(candidates, verdicts, decided) ==
    IF decided = {} THEN [err |-> "", device |-> <<>>]
    ELSE IF verdicts[Min(decided)] = "true"
    THEN [err |-> "", device |-> candidates[Min(decided)]]
    ELSE [err |-> verdicts[Min(decided)], device |-> <<>>]

\* a search that skips a candidate whose loop raised
PickCandidateSkipsErrors(candidates, verdicts) ==
    FirstCandidate(candidates, verdicts,
                   {i \in DOMAIN verdicts : verdicts[i] = "true"})

PickCandidate(candidates, verdicts) ==
    FirstCandidate(candidates, verdicts,
                   {i \in DOMAIN verdicts : verdicts[i] # "false"})

SearchCandidates(doc, candidates, spans) ==
    PickCandidate(candidates, CandidateVerdicts(doc, candidates, spans))

find_available_device(doc, device_type, start_date, end_date) ==
    IF ~Loadable(doc) THEN [err |-> "unreadable", device |-> <<>>]
    ELSE IF _get_month_sheet_name(start_date) \notin SheetNames(doc)
    THEN [err |-> "nosheet", device |-> <<>>]
    ELSE SearchCandidates(doc,
                          Candidates(Sheet(doc, _get_month_sheet_name(start_date)),
                                     device_type),
                          _iter_month_ranges(start_date, end_date))

(***************************************************************************)
(* list_cancellable_bookings                                               *)
(***************************************************************************)
Max(S) == CHOOSE x \in S : \A y \in S : x >= y

StripTo(s, kept) == IF kept = {} THEN <<>> ELSE SubSeq(s, Min(kept), Max(kept))

\* s.strip(): the blanks in front and at the end are dropped
Strip(s) == StripTo(s, {i \in 1..Len(s) : s[i] # " "})

\* status == '予約中' and (name and uname == name) or (ext and uext == ext)
\* or (emp and uemp == emp), the row's cells being stripped
RowMatches(row, name, ext, emp) ==
    /\ Strip(row.status) = <<"booked">>
    /\ \/ name # <<>> /\ Strip(row.name) = name
       \/ ext # <<>> /\ Strip(row.extension) = ext
       \/ emp # <<>> /\ Strip(row.employee_id) = emp

\* the dictionary appended for a row
ListItem(row) ==
    [booking_id |-> Strip(row.id), device_name |-> Strip(row.device),
     start_date |-> Strip(row.start), end_date |-> Strip(row.end)]

ListItems(rows) == [i \in 1..Len(rows) |-> ListItem(rows[i])]

\* the loop over the log rows, in row order
ListRows(log, name, ext, emp) ==
    ListItems(SelectSeq(log, LAMBDA row : RowMatches(row, name, ext, emp)))

\* user_info.get(key, '')
UserGet(user_info, key) == IF key \in DOMAIN user_info THEN user_info[key] ELSE <<>>

\* a workbook without log page gives []
list_cancellable_bookings(doc, user_info) ==
    IF ~Loadable(doc) THEN [err |-> "unreadable", items |-> <<>>]
    ELSE IF ~doc.hasLog THEN [err |-> "", items |-> <<>>]
    ELSE [err |-> "",
          items |-> ListRows(doc.log, UserGet(user_info, "name"),
                             UserGet(user_info, "extension"),
                             UserGet(user_info, "employee_id"))]

(***************************************************************************)
(* In-memory edits of a loaded workbook.                                   *)
(***************************************************************************)
\* the booking marker 'C:' + id
Marker(booking_id) == <<"C", ":">> \o booking_id

\* a write that stops after the first column
SetFirstCell(cells, row, cols, value) ==
    IF cols = {} THEN cells ELSE (<<row, Min(cols)>> :> value) @@ cells

\* sheet.cell(row=row, column=col, value=value) for every col of cols
SetCells(cells, row, cols, value) ==
    [k \in {<<row, col>> : col \in cols} |-> value] @@ cells

\* sheet.cell(row=row, column=col, value=None) for every col of cols
ClearCells(cells, row, cols) ==
    [k \in DOMAIN cells \ {<<row, col>> : col \in cols} |-> cells[k]]

\* the cells of a located span take the value; a failed lookup raises
MarkAt(doc, sheet_name, at, value) ==
    IF at.err # "" THEN [err |-> at.err, doc |-> doc]
    ELSE [err |-> "",
          doc |-> [doc EXCEPT !.cells[sheet_name] =
                     SetCells(@, at.row, at.columns, value)]]

\* book's loop body for one span: marks every resolved cell, or raises
MarkSpan(doc, device_name, m_start, m_end, value) ==
    MarkAt(doc, _get_month_sheet_name(m_start),
           LocateSpan(doc, device_name, m_start, m_end), value)

RECURSIVE MarkSpans(_, _, _, _, _)
\* the loop goes on to span i + 1 unless span i raised
MarkNext(one, device_name, spans, i, value) ==
    IF one.err # "" THEN one
    ELSE MarkSpans(one.doc, device_name, spans, i + 1, value)

MarkSpans(doc, device_name, spans, i, value) ==
    IF i > Len(spans) THEN [err |-> "", doc |-> doc]
    ELSE MarkNext(MarkSpan(doc, device_name, spans[i][1], spans[i][2], value),
                  device_name, spans, i, value)

\* a sweep that clears every string cell of the span, whatever its prefix
ClearedColumnsAnyText(sheet, device_row, m_start, m_end, marker_prefix) ==
    {col \in 3..max_column(sheet) :
        /\ \E day \in HeaderDay(sheet, 8, col) :
                m_start.d <= day /\ day <= m_end.d
        /\ CellValue(sheet, device_row, col).t = "str"}

\* the columns cancel clears on one page: the row-8 header day lies in the
\* span and the cell value is a string that starts with the prefix
ClearedColumns(sheet, device_row, m_start, m_end, marker_prefix) ==
    {col \in 3..max_column(sheet) :
        /\ \E day \in HeaderDay(sheet, 8, col) :
                m_start.d <= day /\ day <= m_end.d
        /\ CellValue(sheet, device_row, col).t = "str"
        /\ StartsWith(CellValue(sheet, device_row, col).s, marker_prefix)}

\* the page's device row is cleared, or the ValueError of a missing device
ClearRow(doc, sheet_name, sheet, device_row, m_start, m_end, marker_prefix) ==
    IF device_row = 0 THEN [err |-> "nodevice", doc |-> doc]
    ELSE [err |-> "",
          doc |-> [doc EXCEPT !.cells[sheet_name] =
                     ClearCells(@, device_row,
                                ClearedColumns(sheet, device_row, m_start, m_end,
                                               marker_prefix))]]

ClearPage(doc, sheet_name, sheet, device_name, m_start, m_end, marker_prefix) ==
    ClearRow(doc, sheet_name, sheet, _find_device_row(sheet, device_name),
             m_start, m_end, marker_prefix)

\* cancel's loop body for one span
ClearSpan(doc, device_name, m_start, m_end, marker_prefix) ==
    IF _get_month_sheet_name(m_start) \notin SheetNames(doc)
    THEN [err |-> "nosheet", doc |-> doc]
    ELSE ClearPage(doc, _get_month_sheet_name(m_start),
                   Sheet(doc, _get_month_sheet_name(m_start)),
                   device_name, m_start, m_end, marker_prefix)

RECURSIVE ClearSpans(_, _, _, _, _)
\* the loop goes on to span i + 1 unless span i raised
ClearNext(one, device_name, spans, i, marker_prefix) ==
    IF one.err # "" THEN one
    ELSE ClearSpans(one.doc, device_name, spans, i + 1, marker_prefix)

ClearSpans(doc, device_name, spans, i, marker_prefix) ==
    IF i > Len(spans) THEN [err |-> "", doc |-> doc]
    ELSE ClearNext(ClearSpan(doc, device_name, spans[i][1], spans[i][2], marker_prefix),
                   device_name, spans, i, marker_prefix)

\* the log row book appends (the header row is row 1; rows are log[1], log[2],
\* ...); the timestamp column is left out
LogRow(booking_id, device_name, start_date, end_date, user_info) ==
    [id |-> booking_id,
     name |-> UserGet(user_info, "name"),
     extension |-> UserGet(user_info, "extension"),
     employee_id |-> UserGet(user_info, "employee_id"),
     device |-> device_name,
     start |-> strftime(start_date),
     end |-> strftime(end_date),
     status |-> <<"booked">>]

\* _ensure_booking_log_sheet and log_sheet.append(row) on the marked workbook
AppendLog(marked, row) ==
    [err |-> marked.err,
     wb |-> [marked.doc EXCEPT !.hasLog = TRUE, !.log = Append(@, row)]]

\* a booking whose log row does not carry the id
BookEditUnlogged(wb, booking_id, device_name, start_date, end_date, user_info) ==
    AppendLog(MarkSpans(wb, device_name, _iter_month_ranges(start_date, end_date), 1,
                        StrV(Marker(booking_id))),
              LogRow(<<>>, device_name, start_date, end_date, user_info))

\* the workbook book builds from the loaded one: markers, log page, log row
BookEdit(wb, booking_id, device_name, start_date, end_date, user_info) ==
    AppendLog(MarkSpans(wb, device_name, _iter_month_ranges(start_date, end_date), 1,
                        StrV(Marker(booking_id))),
              LogRow(booking_id, device_name, start_date, end_date, user_info))

\* the log row cancel picks: the first whose id equals booking_id; 0 when none
FindBookingRow(log, booking_id) ==
    FirstOf({r \in 1..Len(log) : log[r].id = booking_id})

\* the clearing loops over the spans of the parsed dates
ClearBooking(wb, booking_id, device_name, sd, ed) ==
    IF ~sd.ok \/ ~ed.ok THEN [err |-> "baddate", doc |-> wb]
    ELSE ClearSpans(wb, device_name, _iter_month_ranges(sd.date, ed.date), 1,
                    Marker(booking_id))

\* the device and the dates are read from the log row
CancelRow(wb, booking_id, row) ==
    ClearBooking(wb, booking_id, row.device, strptime(row.start), strptime(row.end))

\* a cancel that also writes the cancelled status into the log row
CancelEditMarksRow(wb, booking_id) ==
    IF ~wb.hasLog THEN [err |-> "keyerror", doc |-> wb]
    ELSE IF FindBookingRow(wb.log, booking_id) = 0 THEN [err |-> "notfound", doc |-> wb]
    ELSE [CancelRow(wb, booking_id, wb.log[FindBookingRow(wb.log, booking_id)])
            EXCEPT !.doc.log[FindBookingRow(wb.log, booking_id)].status = <<"cancelled">>]

\* the workbook cancel builds from the loaded one, or the error it raises
CancelEdit(wb, booking_id) ==
    IF ~wb.hasLog THEN [err |-> "keyerror", doc |-> wb]
    ELSE IF FindBookingRow(wb.log, booking_id) = 0 THEN [err |-> "notfound", doc |-> wb]
    ELSE CancelRow(wb, booking_id, wb.log[FindBookingRow(wb.log, booking_id)])

(***************************************************************************)
(* The 'com' write backend: the workbook is opened in Excel, edited cell   *)
(* by cell and saved when it is closed.                                    *)
(***************************************************************************)
\* the value Excel hands out for a cell: a number comes as a float
ComValue(value) == IF value.t = "int" THEN FloatV(value.n * 10) ELSE value

\* ws.Cells(8, ws.Columns.Count).End(xlToLeft).Column: the last non-empty
\* cell of row 8, column 1 when the row is empty from column 3 on
ComLastColumn(ws) ==
    Max({1} \cup {c + 2 : c \in {k \in 1..Len(ws.row8) : ws.row8[k] # NoneV}})

\* str(ws.Cells(r, 2).Value).strip() == str(device_name), rows 9 to the last
_com_find_device_row(ws, device_name) ==
    FirstOf({r \in 9..(8 + Len(ws.names)) : Strip(ws.names[r - 8].s) = device_name})

\* the columns of row 8 whose day lies in the span
ComSpanColumns(ws, last_col, m_start, m_end) ==
    {c \in 3..last_col :
        \E day \in _normalize_header_day(ComValue(CellValue(ws, 8, c))) :
            m_start.d <= day /\ day <= m_end.d}

_com_get_date_columns(ws, m_start, m_end) ==
    ComSpanColumns(ws, ComLastColumn(ws), m_start, m_end)

\* the row and the columns of a span, or the ValueError raised
ComLocated(device_row, cols) ==
    IF device_row = 0 THEN [err |-> "nodevice", row |-> 0, columns |-> {}]
    ELSE IF cols = {} THEN [err |-> "noday", row |-> 0, columns |-> {}]
    ELSE [err |-> "", row |-> device_row, columns |-> cols]

ComLocate(ws, device_name, m_start, m_end) ==
    ComLocated(_com_find_device_row(ws, device_name),
               _com_get_date_columns(ws, m_start, m_end))

ComLocateSpan(doc, device_name, m_start, m_end) ==
    IF _get_month_sheet_name(m_start) \notin SheetNames(doc)
    THEN [err |-> "nosheet", row |-> 0, columns |-> {}]
    ELSE ComLocate(Sheet(doc, _get_month_sheet_name(m_start)), device_name,
                   m_start, m_end)

\* _com_book's loop body for one span: no cell is read before it is written
ComMarkSpan(doc, device_name, m_start, m_end, value) ==
    MarkAt(doc, _get_month_sheet_name(m_start),
           ComLocateSpan(doc, device_name, m_start, m_end), value)

RECURSIVE ComMarkSpans(_, _, _, _, _)
\* a span that raises ends the loop; the spans marked before it stay marked
ComMarkNext(one, device_name, spans, i, value) ==
    IF one.err # "" THEN one
    ELSE ComMarkSpans(one.doc, device_name, spans, i + 1, value)

ComMarkSpans(doc, device_name, spans, i, value) ==
    IF i > Len(spans) THEN [err |-> "", doc |-> doc]
    ELSE ComMarkNext(ComMarkSpan(doc, device_name, spans[i][1], spans[i][2], value),
                     device_name, spans, i, value)

\* _com_ensure_booking_log_sheet and the row written below the last one
ComAppendLog(marked, row) ==
    IF marked.err # "" THEN marked
    ELSE [err |-> "",
          doc |-> [marked.doc EXCEPT !.hasLog = TRUE, !.log = Append(@, row)]]

\* the error raised ("" when the id is returned) and the workbook that
\* wb.Close(SaveChanges=True) writes in either case
_com_book(doc, booking_id, device_name, start_date, end_date, user_info) ==
    IF ~Loadable(doc) THEN [err |-> "unreadable", doc |-> doc]
    ELSE ComAppendLog(ComMarkSpans(doc, device_name,
                                   _iter_month_ranges(start_date, end_date), 1,
                                   StrV(Marker(booking_id))),
                      LogRow(booking_id, device_name, start_date, end_date, user_info))

\* the first log row whose stripped id is booking_id; 0 when none
ComFindBookingRow(log, booking_id) ==
    FirstOf({r \in 1..Len(log) : Strip(log[r].id) = booking_id})

\* the columns _com_cancel clears on one page
ComClearedColumns(ws, device_row, cols, marker_prefix) ==
    {c \in cols :
        /\ CellValue(ws, device_row, c).t = "str"
        /\ StartsWith(CellValue(ws, device_row, c).s, marker_prefix)}

ComClearRow(doc, sheet_name, ws, device_row, m_start, m_end, marker_prefix) ==
    IF device_row = 0 THEN [err |-> "nodevice", doc |-> doc]
    ELSE [err |-> "",
          doc |-> [doc EXCEPT !.cells[sheet_name] =
                     ClearCells(@, device_row,
                                ComClearedColumns(ws, device_row,
                                    _com_get_date_columns(ws, m_start, m_end),
                                    marker_prefix))]]

ComClearPage(doc, sheet_name, ws, device_name, m_start, m_end, marker_prefix) ==
    ComClearRow(doc, sheet_name, ws, _com_find_device_row(ws, device_name),
                m_start, m_end, marker_prefix)

\* _com_cancel's loop body for one span
ComClearSpan(doc, device_name, m_start, m_end, marker_prefix) ==
    IF _get_month_sheet_name(m_start) \notin SheetNames(doc)
    THEN [err |-> "nosheet", doc |-> doc]
    ELSE ComClearPage(doc, _get_month_sheet_name(m_start),
                      Sheet(doc, _get_month_sheet_name(m_start)),
                      device_name, m_start, m_end, marker_prefix)

RECURSIVE ComClearSpans(_, _, _, _, _)
ComClearNext(one, device_name, spans, i, marker_prefix) ==
    IF one.err # "" THEN one
    ELSE ComClearSpans(one.doc, device_name, spans, i + 1, marker_prefix)

ComClearSpans(doc, device_name, spans, i, marker_prefix) ==
    IF i > Len(spans) THEN [err |-> "", doc |-> doc]
    ELSE ComClearNext(ComClearSpan(doc, device_name, spans[i][1], spans[i][2],
                                   marker_prefix),
                      device_name, spans, i, marker_prefix)

ComClearBooking(doc, booking_id, device_name, sd, ed) ==
    IF ~sd.ok \/ ~ed.ok THEN [err |-> "baddate", doc |-> doc]
    ELSE ComClearSpans(doc, device_name, _iter_month_ranges(sd.date, ed.date), 1,
                       Marker(booking_id))

\* the device and the dates are read, stripped, from the log row
ComCancelRow(doc, booking_id, row) ==
    ComClearBooking(doc, booking_id, Strip(row.device),
                    strptime(Strip(row.start)), strptime(Strip(row.end)))

\* wb.Worksheets("予約ログ") of a workbook without that sheet raises
_com_cancel(doc, booking_id) ==
    IF ~Loadable(doc) THEN [err |-> "unreadable", doc |-> doc]
    ELSE IF ~doc.hasLog THEN [err |-> "comerror", doc |-> doc]
    ELSE IF ComFindBookingRow(doc.log, booking_id) = 0
    THEN [err |-> "notfound", doc |-> doc]
    ELSE ComCancelRow(doc, booking_id,
                      doc.log[ComFindBookingRow(doc.log, booking_id)])

(***************************************************************************)
(* The chat endpoint, with the language model switched off: slots is {}.   *)
(* A request carries state, text, user_info and context; the reply carries *)
(* next_state, user_info and context.  None and '' of state are "" here,   *)
(* a dictionary is a function from its keys to texts, and a text of the    *)
(* request is a value (None or a string).  Words are single tokens.        *)
(***************************************************************************)
TextReserve == StrV(<<"yoyaku">>)
TextCancel == StrV(<<"kyanseru">>)
TextYes == StrV(<<"hai">>)
TextNo == StrV(<<"iie">>)

NoContext == [k \in {} |-> <<>>]

\* dictionary.get(key), <<>> standing for None
Get(dictionary, key) == IF key \in DOMAIN dictionary THEN dictionary[key] ELSE <<>>

\* dictionary[key] = value
Put(dictionary, key, value) == (key :> value) @@ dictionary

\* (text or "")
TextOr(text) == IF Truthy(text) THEN text.s ELSE <<>>

\* datetime.strptime(s, "%Y/%m/%d").date()
strptime_slash(s) ==
    IF Len(s) = 10 /\ s[5] = "/" /\ s[8] = "/"
    THEN strptime([i \in 1..10 |-> IF i \in {5, 8} THEN "-" ELSE s[i]])
    ELSE [ok |-> FALSE, date |-> Date(1, 1, 1)]

\* the first format that parses
FirstFormat(dashed, slashed) == IF dashed.ok THEN dashed ELSE slashed

_parse_date_any(s) == FirstFormat(strptime(Strip(s)), strptime_slash(Strip(s)))

\* start_str, end_str = [p.strip() for p in s.split(",")]: the unpacking
\* raises unless there is exactly one comma
SplitAt(s, commas) ==
    IF Cardinality(commas) # 1 THEN [ok |-> FALSE, start_str |-> <<>>, end_str |-> <<>>]
    ELSE [ok |-> TRUE,
          start_str |-> Strip(SubSeq(s, 1, Min(commas) - 1)),
          end_str |-> Strip(SubSeq(s, Min(commas) + 1, Len(s)))]

SplitDates(s) == SplitAt(s, {i \in 1..Len(s) : s[i] = ","})

\* both dates parsed, or the except branch
BothDates(parts, start_date, end_date) ==
    [ok |-> parts.ok /\ start_date.ok /\ end_date.ok,
     start_date |-> start_date.date, end_date |-> end_date.date]

ParseDates(parts) ==
    BothDates(parts, _parse_date_any(parts.start_str), _parse_date_any(parts.end_str))

\* the reply of a request: what the client sends back with its next text
Reply(next_state, user_info, context) ==
    [next_state |-> next_state, user_info |-> user_info, context |-> context]

\* all(user_info.get(x) for x in ("name", "extension", "employee_id"))
AllUserInfo(user_info) ==
    \A x \in {"name", "extension", "employee_id"} : Get(user_info, x) # <<>>

\* "If we have all user info and state is not yet AWAITING_COMMAND"
FastForward(state, user_info) ==
    /\ state \in {"", "AWAITING_USER_INFO_NAME", "AWAITING_USER_INFO_EXTENSION",
                  "AWAITING_USER_INFO_EMPLOYEE_ID"}
    /\ AllUserInfo(user_info)

\* a handler that returns the new field alone
StoreUserInfoAlone(state, text, user_info, context, key, next) ==
    IF Truthy(text) THEN Reply(next, Put(NoContext, key, text.s), context)
    ELSE Reply(state, user_info, context)

\* if text: user_info[key] = text, and the next question; else the same one
StoreUserInfo(state, text, user_info, context, key, next) ==
    IF Truthy(text) THEN Reply(next, Put(user_info, key, text.s), context)
    ELSE Reply(state, user_info, context)

\* AWAITING_DEVICE_TYPE
StoreDeviceType(device_type, user_info, context) ==
    IF device_type = <<>> THEN Reply("AWAITING_DEVICE_TYPE", user_info, context)
    ELSE Reply("AWAITING_DATES", user_info, Put(context, "device_type", device_type))

\* a handler that takes the error of the search for a candidate
CandidateOnError(found, dates, user_info, context) ==
    IF found.err = "" /\ found.device = <<>>
    THEN Reply("AWAITING_DATES", user_info, context)
    ELSE Reply("CONFIRM_RESERVATION", user_info,
               Put(Put(Put(context, "start_date", strftime(dates.start_date)),
                       "end_date", strftime(dates.end_date)),
                   "candidate_device", found.device))

\* an update that stores the start date as end date too
CandidateOneDate(found, dates, user_info, context) ==
    IF found.err # "" \/ found.device = <<>>
    THEN Reply("AWAITING_DATES", user_info, context)
    ELSE Reply("CONFIRM_RESERVATION", user_info,
               Put(Put(Put(context, "start_date", strftime(dates.start_date)),
                       "end_date", strftime(dates.start_date)),
                   "candidate_device", found.device))

\* context.update({...}) with the candidate, or the reply that asks again
Candidate(found, dates, user_info, context) ==
    IF found.err # "" \/ found.device = <<>>
    THEN Reply("AWAITING_DATES", user_info, context)
    ELSE Reply("CONFIRM_RESERVATION", user_info,
               Put(Put(Put(context, "start_date", strftime(dates.start_date)),
                       "end_date", strftime(dates.end_date)),
                   "candidate_device", found.device))

\* AWAITING_DATES: the text is parsed, then the document searched
SearchDates(doc, dates, user_info, context) ==
    IF ~dates.ok THEN Reply("AWAITING_DATES", user_info, context)
    ELSE Candidate(find_available_device(doc, Get(context, "device_type"),
                                         dates.start_date, dates.end_date),
                   dates, user_info, context)

\* a handler that takes a blank for a booking id
StoreBookingIdBlank(booking_id, user_info, context) ==
    Reply("CANCEL_CONFIRM", user_info, Put(context, "booking_id", booking_id))

\* AWAITING_CANCEL_BOOKING_ID
StoreBookingId(booking_id, user_info, context) ==
    IF booking_id = <<>> THEN Reply("AWAITING_CANCEL_BOOKING_ID", user_info, context)
    ELSE Reply("CANCEL_CONFIRM", user_info, Put(context, "booking_id", booking_id))

\* a handler that takes 'いいえ' for an unknown answer
DeclinedStays(state, text, user_info, context) == Reply(state, user_info, context)

\* CONFIRM_RESERVATION and CANCEL_CONFIRM for a text other than 'はい'
Declined(state, text, user_info, context) ==
    IF text = TextNo THEN Reply("AWAITING_COMMAND", user_info, NoContext)
    ELSE Reply(state, user_info, context)

\* the branches of "if not reply_text" from AWAITING_COMMAND on
Flow(doc, state, text, user_info, context, intent) ==
    IF state = "AWAITING_COMMAND" /\ text = TextReserve
    THEN Reply("AWAITING_DEVICE_TYPE", user_info, Put(context, "intent", <<"reserve">>))
    ELSE IF state = "AWAITING_DEVICE_TYPE" /\ intent = <<"reserve">>
    THEN StoreDeviceType(Strip(TextOr(text)), user_info, context)
    ELSE IF state = "AWAITING_DATES" /\ intent = <<"reserve">>
    THEN SearchDates(doc, ParseDates(SplitDates(TextOr(text))), user_info, context)
    ELSE IF state = "CONFIRM_RESERVATION" /\ intent = <<"reserve">>
    THEN Declined(state, text, user_info, context)
    ELSE IF state = "AWAITING_COMMAND" /\ text = TextCancel
    THEN Reply("AWAITING_CANCEL_BOOKING_ID", user_info,
               Put(context, "intent", <<"cancel">>))
    ELSE IF state = "AWAITING_CANCEL_BOOKING_ID" /\ intent = <<"cancel">>
    THEN StoreBookingId(Strip(TextOr(text)), user_info, context)
    ELSE IF state = "CANCEL_CONFIRM" /\ intent = <<"cancel">>
    THEN Declined(state, text, user_info, context)
    ELSE Reply("AWAITING_COMMAND", user_info, context)

\* the handler for a request that calls neither book nor cancel
chat(doc, state, text, user_info, context) ==
    IF FastForward(state, user_info) THEN Reply("AWAITING_COMMAND", user_info, context)
    ELSE IF state = "" THEN Reply("AWAITING_USER_INFO_NAME", user_info, context)
    ELSE IF state = "AWAITING_USER_INFO_NAME"
    THEN StoreUserInfo(state, text, user_info, context, "name",
                       "AWAITING_USER_INFO_EXTENSION")
    ELSE IF state = "AWAITING_USER_INFO_EXTENSION"
    THEN StoreUserInfo(state, text, user_info, context, "extension",
                       "AWAITING_USER_INFO_EMPLOYEE_ID")
    ELSE IF state = "AWAITING_USER_INFO_EMPLOYEE_ID"
    THEN StoreUserInfo(state, text, user_info, context, "employee_id",
                       "AWAITING_COMMAND")
    ELSE Flow(doc, state, text, user_info, context, Get(context, "intent"))

\* the request is answered only after book or cancel has returned
Confirms(state, text, context) ==
    /\ text = TextYes
    /\ \/ state = "CONFIRM_RESERVATION" /\ Get(context, "intent") = <<"reserve">>
       \/ state = "CANCEL_CONFIRM" /\ Get(context, "intent") = <<"cancel">>

(***************************************************************************)
(* The documents the callers are given, the ids, users and date ranges of  *)
(* the calls.  Log cells and identity fields hold texts (str(v or '') of a  *)
(* text is the text itself).                                               *)
(***************************************************************************)
\* str(uuid.uuid4())[:8]: eight hexadecimal characters
IdA == <<"a", "3", "f", "0", "c", "2", "d", "1">>
IdB == <<"2", "8", "b", "7", "e", "9", "a", "0">>
IdNone == <<"0", "0", "0", "0", "0", "0", "0", "0">>
UuidPool == {IdA, IdB}

\* user_info dictionaries: a key may be absent
\* a text is a sequence of tokens, " " being a blank
NoUser == [k \in {} |-> <<>>]
UserFull == ("name" :> <<"yamada">> @@ "extension" :> <<"1234">>
             @@ "employee_id" :> <<"56789">>)
UserPartial == ("name" :> <<"sato">> @@ "extension" :> <<"4321">>)

\* a name typed with a blank in front
UserPadded == ("name" :> <<" ", "suzuki">>)

\* another name with the extension of UserPartial
UserSameExtension == ("name" :> <<"tanaka">> @@ "extension" :> <<"4321">>)

\* the identities a listing is asked for
Identities == {UserPartial, UserPadded, UserSameExtension, NoUser}

Callers == {"c1", "c2"}

\* the user on whose behalf each of two concurrent callers books
UserOf(p) == IF p = "c1" THEN UserFull ELSE UserPartial

EmptyGrid == (Dec24 :> NoCells @@ Jan25 :> NoCells @@ Feb25 :> NoCells)

\* the tests' workbook: headers in row 8, an empty log page
DocStd == [layout |-> "std", cells |-> EmptyGrid,
           hasLog |-> TRUE, log |-> <<>>, intact |-> "ok"]

\* a workbook whose January page has its headers in row 7, and no log page yet
DocDrift == [layout |-> "drift", cells |-> EmptyGrid,
             hasLog |-> FALSE, log |-> <<>>, intact |-> "ok"]

\* the tests' workbook after a booking of DevA was made and cancelled: the
\* cells are empty again and the log row stays
DocUsed == [layout |-> "std", cells |-> EmptyGrid, hasLog |-> TRUE,
            log |-> <<LogRow(IdA, DevA, Date(2024, 12, 30), Date(2024, 12, 31),
                             UserPartial)>>,
            intact |-> "ok"]

\* the tests' workbook after two bookings were made and cancelled, the first
\* by a user who typed the name with a blank in front; the status of the
\* second row was set to cancelled by hand
DocListed == [layout |-> "std", cells |-> EmptyGrid, hasLog |-> TRUE,
              log |-> <<LogRow(IdA, DevA, Date(2024, 12, 30), Date(2024, 12, 31),
                               UserPadded),
                        [LogRow(IdB, DevB, Date(2024, 12, 30), Date(2024, 12, 31),
                                UserPartial) EXCEPT !.status = <<"cancelled">>]>>,
              intact |-> "ok"]

InitialDocs == {DocStd, DocDrift, DocUsed}

NoDoc == [layout |-> "", cells |-> <<>>, hasLog |-> FALSE, log |-> <<>>,
          intact |-> "none"]

\* date ranges of the calls: within one page, across three pages, running
\* into a month without page, starting in a month without page
BookRanges ==
    { <<Date(2024, 12, 30), Date(2024, 12, 31)>>,
      <<Date(2024, 12, 31), Date(2025, 2, 1)>>,
      <<Date(2025, 2, 1), Date(2025, 3, 1)>>,
      <<Date(2024, 11, 30), Date(2024, 12, 31)>> }

\* the ranges two concurrent callers ask for: they share 2024-12-31
OverlappingRanges ==
    { <<Date(2024, 12, 30), Date(2024, 12, 31)>>,
      <<Date(2024, 12, 31), Date(2025, 2, 1)>> }

\* the prefixes a search is asked for: both devices, one device, no device
DeviceTypes == {<<"F", "E">>, <<"F", "E", "B">>, <<"P", "C">>}

\* a user_info that holds the employee id only
UserEmployeeOnly == ("employee_id" :> <<"56789">>)

\* the user_info of the first request of a conversation
FirstUserInfos == {NoUser, UserEmployeeOnly, UserFull}

\* '2024-12-30, 2024/12/31'
TextDates ==
    StrV(strftime(Date(2024, 12, 30)) \o <<",", " ">>
         \o <<"2", "0", "2", "4", "/", "1", "2", "/", "3", "1">>)

\* '2025/01/31,2025-02-01'
TextDatesLong ==
    StrV(<<"2", "0", "2", "5", "/", "0", "1", "/", "3", "1", ",">>
         \o strftime(Date(2025, 2, 1)))

\* no text, the empty text, a blank
TextsEmpty == {NoneV, StrV(<<>>), StrV(<<" ">>)}

\* the texts a user sends in a state: always none, empty or blank; a word
\* for the user info; a command; a device type typed with a blank in front;
\* two dates or one; yes or no; a booking id typed with a blank behind
TextsFor(state) ==
    TextsEmpty \cup
    CASE state = "AWAITING_COMMAND" -> {TextReserve, TextCancel}
      [] state = "AWAITING_DEVICE_TYPE" -> {StrV(<<" ", "F", "E">>)}
      [] state = "AWAITING_DATES" ->
            {TextDates, TextDatesLong, StrV(strftime(Date(2024, 12, 30)))}
      [] state \in {"CONFIRM_RESERVATION", "CANCEL_CONFIRM"} -> {TextYes, TextNo}
      [] state = "AWAITING_CANCEL_BOOKING_ID" -> {StrV(IdA \o <<" ">>)}
      [] OTHER -> {TextReserve}

\* calls made in one behaviour of a single caller
MaxCalls == 3

\* book and cancel calls made in one behaviour of a caller that also reads
MaxWriteCalls == 2

\* book and cancel calls made in one conversation
MaxChatCalls == 2

\* calls made in one behaviour of two concurrent callers
MaxConcurrentCalls == 2

(***************************************************************************)
(* State.  disk is the document file, lock the caller whose mkdir created  *)
(* the lock directory ("" when the directory does not exist), proc the     *)
(* position and locals of each caller, calls the number of calls made.     *)
(* proc[p].found is the device a search returned (<<>> for None),          *)
(* proc[p].items the list a listing returned.                              *)
(* History kept for the properties: proc[p].pre is the document just       *)
(* before p's write, proc[p].concurrent the callers whose call was running *)
(* when p called, proc[p].prev the booking p's previous call returned.     *)
(* session is the conversation of the chat client: the state, user_info    *)
(* and context of the last reply, which the client sends back with its     *)
(* next text, and pc, "calling" while a request waits for book or cancel.  *)
(* session.text is the text of the last request, session.tick flips with   *)
(* every request and session.given is the user_info of the first request.  *)
(***************************************************************************)
VARIABLES disk, lock, proc, calls, session

vars == <<disk, lock, proc, calls, session>>

NoBooking == [id |-> <<>>, device |-> <<>>, start |-> Date(1, 1, 1),
              end |-> Date(1, 1, 1)]

Idle ==
    [pc |-> "idle", op |-> "", device |-> <<>>, start |-> Date(1, 1, 1),
     end |-> Date(1, 1, 1), user |-> NoUser, booking_id |-> <<>>,
     wb |-> NoDoc, bak |-> NoDoc, hasBak |-> FALSE, pre |-> NoDoc,
     result |-> "", concurrent |-> {}, prev |-> NoBooking,
     device_type |-> <<>>, found |-> <<>>, items |-> <<>>]

\* reply_text, by what it carries: kind is "asked" for a question or a
\* notice, "booked" with the booking id, "cancelled", or "error" with the
\* error that book or cancel raised
NoReply == [kind |-> "", id |-> <<>>, err |-> ""]

\* no request has been made; status is the HTTP status of the last response
NoSession ==
    [state |-> "", user_info |-> NoUser, context |-> NoContext, text |-> NoneV,
     tick |-> 0, given |-> NoUser, pc |-> "idle", reply |-> NoReply,
     status |-> ""]

\* the callers other than p whose call is running
Running(p) == {q \in Callers \ {p} : proc[q].pc \notin {"idle", "done"}}

\* the booking p's last call returned, if that call was a successful book
Returned(p) ==
    IF proc[p].op = "book" /\ proc[p].pc = "done" /\ proc[p].result = "ok"
    THEN [id |-> proc[p].booking_id, device |-> proc[p].device,
          start |-> proc[p].start, end |-> proc[p].end]
    ELSE NoBooking

Init ==
    /\ disk \in InitialDocs
    /\ lock = ""
    /\ proc = [p \in Callers |-> Idle]
    /\ calls = 0
    /\ session = NoSession

\* the call ends without a lock directory of its own to remove
Finish(p, outcome) ==
    proc' = [proc EXCEPT ![p].pc = "done", ![p].result = outcome,
                         ![p].wb = NoDoc, ![p].bak = NoDoc, ![p].hasBak = FALSE]

(***************************************************************************)
(* book(excel_path, device_name, start_date, end_date, user_info)          *)
(***************************************************************************)
CallBook(p, device_name, start_date, end_date, user_info) ==
    /\ proc[p].pc \in {"idle", "done"}
    /\ calls' = calls + 1
    /\ proc' = [proc EXCEPT ![p] =
                  [Idle EXCEPT !.pc = "check", !.op = "book", !.device = device_name,
                               !.start = start_date, !.end = end_date,
                               !.user = user_info, !.concurrent = Running(p)]]
    /\ UNCHANGED <<disk, lock>>

\* a book that writes the markers of each span as it resolves it
BookCheckMarks(p) ==
    /\ proc[p].pc = "check"
    /\ \E r \in {check_availability(disk, proc[p].device, proc[p].start, proc[p].end)} :
          IF r = "true" THEN proc' = [proc EXCEPT ![p].pc = "mkdir"] /\ disk' = disk
          ELSE IF r = "false" THEN Finish(p, "conflict") /\ disk' = disk
          ELSE /\ Finish(p, r)
               /\ disk' = MarkSpans(disk, proc[p].device,
                                    _iter_month_ranges(proc[p].start, proc[p].end), 1,
                                    StrV(Marker(IdA))).doc
    /\ UNCHANGED <<lock, calls, session>>

\* "First check if available": outside the lock
BookCheck(p) ==
    /\ proc[p].pc = "check"
    /\ \E r \in {check_availability(disk, proc[p].device, proc[p].start, proc[p].end)} :
          IF r = "true" THEN proc' = [proc EXCEPT ![p].pc = "mkdir"]
          ELSE IF r = "false" THEN Finish(p, "conflict")
          ELSE Finish(p, r)
    /\ UNCHANGED <<disk, lock, calls, session>>

(***************************************************************************)
(* cancel(excel_path, booking_id)                                          *)
(***************************************************************************)
CallCancel(p, booking_id) ==
    /\ proc[p].pc \in {"idle", "done"}
    /\ calls' = calls + 1
    /\ proc' = [proc EXCEPT ![p] =
                  [Idle EXCEPT !.pc = "mkdir", !.op = "cancel",
                               !.booking_id = booking_id,
                               !.concurrent = Running(p), !.prev = Returned(p)]]
    /\ UNCHANGED <<disk, lock>>

(***************************************************************************)
(* The readers: they take no lock and read the document once.              *)
(***************************************************************************)
CallCheck(p, device_name, start_date, end_date) ==
    /\ proc[p].pc \in {"idle", "done"}
    /\ \E r \in {check_availability(disk, device_name, start_date, end_date)} :
          proc' = [proc EXCEPT ![p] =
                     [Idle EXCEPT !.pc = "done", !.op = "check",
                                  !.device = device_name,
                                  !.start = start_date, !.end = end_date,
                                  !.result = r]]
    /\ UNCHANGED <<disk, lock, calls, session>>

CallList(p, user_info) ==
    /\ proc[p].pc \in {"idle", "done"}
    /\ \E l \in {list_cancellable_bookings(disk, user_info)} :
          proc' = [proc EXCEPT ![p] =
                     [Idle EXCEPT !.pc = "done", !.op = "list",
                                  !.user = user_info,
                                  !.result = IF l.err = "" THEN "ok" ELSE l.err,
                                  !.items = l.items]]
    /\ UNCHANGED <<disk, lock, calls, session>>

CallFind(p, device_type, start_date, end_date) ==
    /\ proc[p].pc \in {"idle", "done"}
    /\ \E f \in {find_available_device(disk, device_type, start_date, end_date)} :
          proc' = [proc EXCEPT ![p] =
                     [Idle EXCEPT !.pc = "done", !.op = "find",
                                  !.device_type = device_type,
                                  !.start = start_date, !.end = end_date,
                                  !.result = IF f.err = "" THEN "ok" ELSE f.err,
                                  !.found = f.device]]
    /\ UNCHANGED <<disk, lock, calls, session>>

(***************************************************************************)
(* book and cancel when _WRITE_MODE is 'com': the call goes to _com_book   *)
(* or _com_cancel and returns; no check, no lock, no validation.           *)
(***************************************************************************)
CallComBook(p, device_name, start_date, end_date, user_info) ==
    /\ proc[p].pc \in {"idle", "done"}
    /\ calls' = calls + 1
    /\ \E booking_id \in UuidPool :
       \E e \in {_com_book(disk, booking_id, device_name, start_date, end_date,
                           user_info)} :
          /\ disk' = e.doc
          /\ proc' = [proc EXCEPT ![p] =
                        [Idle EXCEPT !.pc = "done", !.op = "com_book",
                                     !.device = device_name,
                                     !.start = start_date, !.end = end_date,
                                     !.user = user_info,
                                     !.booking_id = booking_id, !.pre = disk,
                                     !.result = IF e.err = "" THEN "ok" ELSE e.err]]
    /\ UNCHANGED <<lock, session>>

CallComCancel(p, booking_id) ==
    /\ proc[p].pc \in {"idle", "done"}
    /\ calls' = calls + 1
    /\ \E e \in {_com_cancel(disk, booking_id)} :
          /\ disk' = e.doc
          /\ proc' = [proc EXCEPT ![p] =
                        [Idle EXCEPT !.pc = "done", !.op = "com_cancel",
                                     !.booking_id = booking_id, !.pre = disk,
                                     !.result = IF e.err = "" THEN "ok" ELSE e.err]]
    /\ UNCHANGED <<lock, session>>

(***************************************************************************)
(* _FileLock.__enter__ and __exit__                                        *)
(***************************************************************************)
\* os.mkdir(lock_dir) succeeds only when the directory does not exist
LockMkdir(p) ==
    /\ proc[p].pc = "mkdir"
    /\ lock = ""
    /\ lock' = p
    /\ proc' = [proc EXCEPT ![p].pc = "waitfile"]
    /\ UNCHANGED <<disk, calls, session>>

\* a waiter that removes the directory when it gives up
LockBusyTimeoutRmdir(p) ==
    /\ proc[p].pc = "mkdir"
    /\ lock # ""
    /\ lock' = ""
    /\ Finish(p, "lock_timeout")
    /\ UNCHANGED <<disk, calls, session>>

\* a waiter that sleeps again whatever time has passed
LockBusySleep(p) ==
    /\ proc[p].pc = "mkdir"
    /\ lock # ""
    /\ UNCHANGED vars

\* FileExistsError after the timeout: TimeoutError, __exit__ does not run
LockBusyTimeout(p) ==
    /\ proc[p].pc = "mkdir"
    /\ lock # ""
    /\ Finish(p, "lock_timeout")
    /\ UNCHANGED <<disk, lock, calls, session>>

\* _is_file_in_use(target_path) answers False
LockFileFree(p) ==
    /\ proc[p].pc = "waitfile"
    /\ proc' = [proc EXCEPT ![p].pc = "load"]
    /\ UNCHANGED <<disk, lock, calls, session>>

\* the file stays in use past the timeout: TimeoutError raised inside
\* __enter__, so the with statement never runs __exit__
LockFileTimeout(p) ==
    /\ proc[p].pc = "waitfile"
    /\ Finish(p, "file_timeout")
    /\ UNCHANGED <<disk, lock, calls, session>>

\* leaving the with block (finally: wb.close(); __exit__: os.rmdir)
Exit(p) ==
    /\ proc[p].pc = "exit"
    /\ lock' = ""
    /\ proc' = [proc EXCEPT ![p].pc = "done", ![p].wb = NoDoc, ![p].pre = NoDoc,
                            ![p].bak = NoDoc, ![p].hasBak = FALSE]
    /\ UNCHANGED <<disk, calls, session>>

(***************************************************************************)
(* The locked section: load, edit in memory, save, validate.               *)
(***************************************************************************)
\* a writer that edits the workbook as it was before any call
LoadEditStale(p) ==
    /\ proc[p].pc = "load"
    /\ IF ~Loadable(disk)
       THEN proc' = [proc EXCEPT ![p].pc = "exit", ![p].result = "unreadable"]
       ELSE \E booking_id \in UuidPool :
            \E e \in {BookEdit(DocStd, booking_id, proc[p].device, proc[p].start,
                               proc[p].end, proc[p].user)} :
              IF e.err # ""
              THEN proc' = [proc EXCEPT ![p].pc = "exit", ![p].result = e.err]
              ELSE proc' = [proc EXCEPT ![p].pc = "backup", ![p].wb = e.wb,
                                        ![p].booking_id = booking_id]
    /\ UNCHANGED <<disk, lock, calls, session>>

\* openpyxl.load_workbook, then the marking / clearing loops and the log row
LoadEdit(p) ==
    /\ proc[p].pc = "load"
    /\ IF ~Loadable(disk)
       THEN proc' = [proc EXCEPT ![p].pc = "exit", ![p].result = "unreadable"]
       ELSE IF proc[p].op = "book"
       THEN \E booking_id \in UuidPool :
            \E e \in {BookEdit(disk, booking_id, proc[p].device, proc[p].start,
                               proc[p].end, proc[p].user)} :
              IF e.err # ""
              THEN proc' = [proc EXCEPT ![p].pc = "exit", ![p].result = e.err]
              ELSE proc' = [proc EXCEPT ![p].pc = "backup", ![p].wb = e.wb,
                                        ![p].booking_id = booking_id]
       ELSE \E e \in {CancelEdit(disk, proc[p].booking_id)} :
              IF e.err # ""
              THEN proc' = [proc EXCEPT ![p].pc = "exit", ![p].result = e.err]
              ELSE \E row \in {disk.log[FindBookingRow(disk.log, proc[p].booking_id)]} :
                     proc' = [proc EXCEPT ![p].pc = "backup", ![p].wb = e.doc,
                                          ![p].device = row.device,
                                          ![p].start = strptime(row.start).date,
                                          ![p].end = strptime(row.end).date]
    /\ UNCHANGED <<disk, lock, calls, session>>

\* _safe_save_workbook, first half: the backup copy, which may fail
SaveBackup(p) ==
    /\ proc[p].pc = "backup"
    /\ \E copied \in BOOLEAN :
          proc' = [proc EXCEPT ![p].pc = "replace", ![p].hasBak = copied,
                               ![p].bak = IF copied THEN disk ELSE NoDoc]
    /\ UNCHANGED <<disk, lock, calls, session>>

\* a save that gives the lock directory up as soon as the file is renamed
SaveReplaceUnlocks(p) ==
    /\ proc[p].pc = "replace"
    /\ \E written \in {"ok", "zip", "sheets"} :
          disk' = [proc[p].wb EXCEPT !.intact = written]
    /\ proc' = [proc EXCEPT ![p].pc = "validate", ![p].pre = disk]
    /\ lock' = ""
    /\ UNCHANGED <<calls, session>>

\* _safe_save_workbook, second half: wb.save(tmp_path); os.replace(tmp_path,
\* excel_path).  The bytes that reach the file may be truncated or incomplete.
SaveReplace(p) ==
    /\ proc[p].pc = "replace"
    /\ \E written \in {"ok", "zip", "sheets"} :
          disk' = [proc[p].wb EXCEPT !.intact = written]
    /\ proc' = [proc EXCEPT ![p].pc = "validate", ![p].pre = disk]
    /\ UNCHANGED <<lock, calls, session>>

\* the pages validation expects: the log page and every month page touched
ExpectedSheets(p) ==
    {_get_month_sheet_name(sp[1]) :
        sp \in Range(_iter_month_ranges(proc[p].start, proc[p].end))}

\* the restore of _validate_or_restore: shutil.copy2(bak_path, excel_path),
\* best effort
Restored(p, copied) ==
    IF proc[p].hasBak /\ copied THEN proc[p].bak ELSE disk

\* zipfile.is_zipfile(excel_path)
ZipOk(doc) == doc.intact # "zip"

\* the workbook opens and holds the log page and every expected month page
SheetsOk(doc, expected) ==
    /\ doc.intact = "ok"
    /\ doc.hasLog
    /\ expected \subseteq SheetNames(doc)

\* _validate_or_restore and the IOError of the caller
Validate(p) ==
    /\ proc[p].pc = "validate"
    /\ \E sizeOk \in BOOLEAN, copied \in BOOLEAN :
          IF ZipOk(disk) /\ SheetsOk(disk, ExpectedSheets(p)) /\ sizeOk
          THEN /\ disk' = disk
               /\ proc' = [proc EXCEPT ![p].pc = "exit", ![p].result = "ok"]
          ELSE /\ disk' = Restored(p, copied)
               /\ proc' = [proc EXCEPT ![p].pc = "exit", ![p].result = "io"]
    /\ UNCHANGED <<lock, calls, session>>

\* what a caller does once it has called
Step(p) ==
    \/ BookCheck(p)
    \/ LockMkdir(p)
    \/ LockBusyTimeout(p)
    \/ LockFileFree(p)
    \/ LockFileTimeout(p)
    \/ LoadEdit(p)
    \/ SaveBackup(p)
    \/ SaveReplace(p)
    \/ Validate(p)
    \/ Exit(p)

\* one caller, one call after the other
Next ==
    \/ /\ calls < MaxCalls
       /\ UNCHANGED session
       /\ \E d \in Devices, r \in BookRanges :
             CallBook("c1", d, r[1], r[2], UserPartial)
    \/ /\ calls < MaxCalls
       /\ UNCHANGED session
       /\ \E b \in UuidPool \cup {IdNone} : CallCancel("c1", b)
    \/ Step("c1")

Spec == Init /\ [][Next]_vars

\* two callers whose calls for one device interleave, on the tests' workbook
InitConcurrent ==
    /\ disk = DocStd
    /\ lock = ""
    /\ proc = [p \in Callers |-> Idle]
    /\ calls = 0
    /\ session = NoSession

NextConcurrent ==
    \/ /\ calls < MaxConcurrentCalls
       /\ UNCHANGED session
       /\ \E p \in Callers, r \in OverlappingRanges :
             CallBook(p, DevA, r[1], r[2], UserOf(p))
    \/ /\ calls < MaxConcurrentCalls
       /\ UNCHANGED session
       /\ \E p \in Callers, b \in UuidPool \cup {IdNone} : CallCancel(p, b)
    \/ \E p \in Callers : Step(p)

SpecConcurrent == InitConcurrent /\ [][NextConcurrent]_vars

\* two callers that contend for the lock with one booking and its cancel;
\* the two polling loops of __enter__ go on: each iteration tries again or
\* reads the clock, and the clock passes the timeout unless the loop ends
\* before
NextLock ==
    \/ /\ calls < MaxConcurrentCalls
       /\ UNCHANGED session
       /\ \E p \in Callers :
             CallBook(p, DevA, Date(2024, 12, 30), Date(2024, 12, 31), UserOf(p))
    \/ /\ calls < MaxConcurrentCalls
       /\ UNCHANGED session
       /\ \E p \in Callers : CallCancel(p, IdA)
    \/ \E p \in Callers : Step(p)

SpecLockFair ==
    /\ InitConcurrent /\ [][NextLock]_vars
    /\ \A p \in Callers :
          /\ WF_vars(LockMkdir(p) \/ LockBusyTimeout(p))
          /\ WF_vars(LockFileFree(p) \/ LockFileTimeout(p))

\* the caller has not read the document since its last book or cancel
Unread(p) == proc[p].op \in {"", "book", "cancel"}

\* one caller whose book and cancel calls alternate with reads: one read of
\* the document as it is at the start and after each book or cancel
NextReads ==
    \/ /\ calls < MaxWriteCalls
       /\ UNCHANGED session
       /\ \E d \in Devices, r \in BookRanges :
             CallBook("c1", d, r[1], r[2], UserPartial)
    \/ /\ calls < MaxWriteCalls
       /\ UNCHANGED session
       /\ \E b \in UuidPool \cup {IdNone} : CallCancel("c1", b)
    \/ Step("c1")
    \/ /\ Unread("c1")
       /\ \E device_type \in DeviceTypes, r \in BookRanges :
             CallFind("c1", device_type, r[1], r[2])
    \/ /\ Unread("c1")
       /\ \E d \in Devices, r \in BookRanges : CallCheck("c1", d, r[1], r[2])
    \/ /\ Unread("c1")
       /\ \E user_info \in Identities : CallList("c1", user_info)

InitReads ==
    /\ disk \in InitialDocs \cup {DocListed}
    /\ lock = ""
    /\ proc = [p \in Callers |-> Idle]
    /\ calls = 0
    /\ session = NoSession

SpecReads == InitReads /\ [][NextReads]_vars

\* one caller of a process started with EXCEL_WRITE_MODE=com
NextCom ==
    \/ /\ calls < MaxCalls
       /\ \E d \in Devices, r \in BookRanges :
             CallComBook("c1", d, r[1], r[2], UserPartial)
    \/ /\ calls < MaxCalls
       /\ \E b \in UuidPool \cup {IdNone} : CallComCancel("c1", b)

SpecCom == Init /\ [][NextCom]_vars

(***************************************************************************)
(* A conversation with the chat endpoint.                                  *)
(***************************************************************************)
\* a request that the handler answers without calling book or cancel
ChatRequest(text) ==
    /\ session.pc = "idle"
    /\ ~Confirms(session.state, text, session.context)
    /\ \E r \in {chat(disk, session.state, text, session.user_info, session.context)} :
          session' = [session EXCEPT !.state = r.next_state,
                                     !.user_info = r.user_info,
                                     !.context = r.context,
                                     !.text = text, !.tick = 1 - @,
                                     !.reply = [NoReply EXCEPT !.kind = "asked"],
                                     !.status = "200"]
    /\ UNCHANGED <<disk, lock, proc, calls>>

\* the reply text after the try block: the id book returned, the notice of
\* cancel, or the message of the exception caught
ReplyText(op, result, booking_id) ==
    IF result # "ok" THEN [NoReply EXCEPT !.kind = "error", !.err = result]
    ELSE IF op = "book" THEN [NoReply EXCEPT !.kind = "booked", !.id = booking_id]
    ELSE [NoReply EXCEPT !.kind = "cancelled"]

\* the response to 'はい': AWAITING_COMMAND and an empty context, whatever the
\* call returned or raised
Answered(reply) ==
    [session EXCEPT !.state = "AWAITING_COMMAND", !.context = NoContext,
                    !.text = TextYes, !.pc = "idle", !.reply = reply,
                    !.status = "200"]

\* 'はい' in CONFIRM_RESERVATION: the dates of the context are parsed and book
\* is called; a date that does not parse is answered at once
ChatBook(start_d, end_d) ==
    /\ session.pc = "idle"
    /\ Confirms(session.state, TextYes, session.context)
    /\ session.state = "CONFIRM_RESERVATION"
    /\ IF start_d.ok /\ end_d.ok
       THEN /\ CallBook("c1", Get(session.context, "candidate_device"),
                        start_d.date, end_d.date, session.user_info)
            /\ session' = [session EXCEPT !.text = TextYes, !.tick = 1 - @,
                                          !.pc = "calling"]
       ELSE /\ session' = [Answered(ReplyText("book", "baddate", <<>>))
                             EXCEPT !.tick = 1 - @]
            /\ UNCHANGED <<disk, lock, proc, calls>>

\* a handler that cancels whenever the conversation is about a cancellation
ChatCancelAnyState ==
    /\ session.pc = "idle"
    /\ Get(session.context, "intent") = <<"cancel">>
    /\ CallCancel("c1", IF Get(session.context, "booking_id") = <<>> THEN IdA
                        ELSE Get(session.context, "booking_id"))
    /\ session' = [session EXCEPT !.tick = 1 - @, !.pc = "calling"]

\* a handler that cancels the booking a listing would show first
ChatCancelFirstRow ==
    /\ session.pc = "idle"
    /\ Confirms(session.state, TextYes, session.context)
    /\ session.state = "CANCEL_CONFIRM"
    /\ CallCancel("c1", IF Len(disk.log) > 0 THEN disk.log[1].id ELSE IdNone)
    /\ session' = [session EXCEPT !.text = TextYes, !.tick = 1 - @, !.pc = "calling"]

\* 'はい' in CANCEL_CONFIRM: cancel is called with the booking id of the context
ChatCancel ==
    /\ session.pc = "idle"
    /\ Confirms(session.state, TextYes, session.context)
    /\ session.state = "CANCEL_CONFIRM"
    /\ CallCancel("c1", Get(session.context, "booking_id"))
    /\ session' = [session EXCEPT !.text = TextYes, !.tick = 1 - @, !.pc = "calling"]

\* a handler that lets the error of book or cancel leave the request
ChatReturnRaises ==
    /\ session.pc = "calling"
    /\ proc["c1"].pc = "done"
    /\ session' = IF proc["c1"].result = "ok"
                  THEN Answered(ReplyText(proc["c1"].op, "ok", proc["c1"].booking_id))
                  ELSE [session EXCEPT !.pc = "idle", !.reply = NoReply, !.status = "500"]
    /\ UNCHANGED <<disk, lock, proc, calls>>

\* book or cancel has returned or raised: the request is answered
ChatReturn ==
    /\ session.pc = "calling"
    /\ proc["c1"].pc = "done"
    /\ session' = Answered(ReplyText(proc["c1"].op, proc["c1"].result,
                                     proc["c1"].booking_id))
    /\ UNCHANGED <<disk, lock, proc, calls>>

InitChat ==
    /\ disk = DocStd
    /\ lock = ""
    /\ proc = [p \in Callers |-> Idle]
    /\ calls = 0
    /\ session \in {[NoSession EXCEPT !.user_info = u, !.given = u] :
                      u \in FirstUserInfos}

NextChat ==
    \/ \E text \in TextsFor(session.state) : ChatRequest(text)
    \/ /\ calls < MaxChatCalls
       /\ ChatBook(_parse_date_any(Get(session.context, "start_date")),
                   _parse_date_any(Get(session.context, "end_date")))
    \/ /\ calls < MaxChatCalls
       /\ ChatCancel
    \/ Step("c1")
    \/ ChatReturn

SpecChat == InitChat /\ [][NextChat]_vars

(***************************************************************************)
(* Properties.  The months, days and cells of a date range are taken from  *)
(* the calendar here, not from the month splitter.                         *)
(***************************************************************************)
\* the <<year, month>> pairs from the month of start_date to that of end_date
MonthsOf(start_date, end_date) ==
    {ym \in (start_date.y..end_date.y) \X (1..12) :
        /\ start_date.y * 12 + start_date.m <= ym[1] * 12 + ym[2]
        /\ ym[1] * 12 + ym[2] <= end_date.y * 12 + end_date.m}

\* a <= b on dates
DateLE(a, b) ==
    \/ <<a.y, a.m, a.d>> = <<b.y, b.m, b.d>>
    \/ a.y < b.y
    \/ (a.y = b.y /\ a.m < b.m)
    \/ (a.y = b.y /\ a.m = b.m /\ a.d < b.d)

NotAfter(ym1, ym2) == ym1[1] * 12 + ym1[2] <= ym2[1] * 12 + ym2[2]

PageOf(ym) == _get_month_sheet_name(Date(ym[1], ym[2], 1))

\* the days of the month ym that lie in [start_date, end_date]
DaysOn(ym, start_date, end_date) ==
    {d \in 1..monthrange(ym[1], ym[2]) :
        /\ DateLE(start_date, Date(ym[1], ym[2], d))
        /\ DateLE(Date(ym[1], ym[2], d), end_date)}

SharesDay(s1, e1, s2, e2) ==
    /\ DateLE(s1, e1) /\ DateLE(s2, e2)
    /\ DateLE(s1, e2) /\ DateLE(s2, e1)

\* the cells <<row, column>> of the device over the days of the range on the
\* page of ym, where the document opens and the page, the row and the column
\* exist
CellsOn(doc, device_name, ym, start_date, end_date) ==
    IF ~Loadable(doc) \/ PageOf(ym) \notin SheetNames(doc) THEN {}
    ELSE IF _find_device_row(Sheet(doc, PageOf(ym)), device_name) = 0 THEN {}
    ELSE {<<_find_device_row(Sheet(doc, PageOf(ym)), device_name),
            _get_date_column(Sheet(doc, PageOf(ym)), d)>> :
              d \in {d \in DaysOn(ym, start_date, end_date) :
                        _get_date_column(Sheet(doc, PageOf(ym)), d) # 0}}

\* the page of ym has the device's row and a column for each day of the range
MonthResolves(doc, device_name, ym, start_date, end_date) ==
    /\ Loadable(doc)
    /\ PageOf(ym) \in SheetNames(doc)
    /\ _find_device_row(Sheet(doc, PageOf(ym)), device_name) # 0
    /\ \A d \in DaysOn(ym, start_date, end_date) :
          _get_date_column(Sheet(doc, PageOf(ym)), d) # 0

\* some cell of the device over the days of the range on the page of ym is
\* not empty
MonthHasBooking(doc, device_name, ym, start_date, end_date) ==
    \E k \in CellsOn(doc, device_name, ym, start_date, end_date) :
        k \in DOMAIN doc.cells[PageOf(ym)]

\* any cell of the range is non-empty
RangeBusy(doc, device_name, start_date, end_date) ==
    \E ym \in MonthsOf(start_date, end_date) :
        MonthHasBooking(doc, device_name, ym, start_date, end_date)

\* every cell of the range exists and is empty
RangeFree(doc, device_name, start_date, end_date) ==
    \A ym \in MonthsOf(start_date, end_date) :
        /\ MonthResolves(doc, device_name, ym, start_date, end_date)
        /\ ~MonthHasBooking(doc, device_name, ym, start_date, end_date)

\* the months of the range up to ym all resolve
ResolvesUpTo(doc, device_name, ym, start_date, end_date) ==
    \A ym2 \in MonthsOf(start_date, end_date) :
        NotAfter(ym2, ym) => MonthResolves(doc, device_name, ym2, start_date, end_date)

BookReturned(p) ==
    proc[p].op = "book" /\ proc[p].pc = "exit" /\ proc[p].result = "ok"

CancelReturned(p) ==
    proc[p].op = "cancel" /\ proc[p].pc = "exit" /\ proc[p].result = "ok"

(***************************************************************************)
(* C1: when two book calls for the same device with overlapping date       *)
(* ranges run concurrently, they do not both return a booking id.          *)
(***************************************************************************)
BookDone(p) ==
    proc[p].op = "book" /\ proc[p].pc = "done" /\ proc[p].result = "ok"

RanConcurrently(p, q) == q \in proc[p].concurrent \/ p \in proc[q].concurrent

C1_ExactlyOneBooks ==
    \A p \in Callers, q \in Callers :
        (/\ p # q
         /\ BookDone(p) /\ BookDone(q)
         /\ RanConcurrently(p, q)
         /\ proc[p].device = proc[q].device)
        => ~SharesDay(proc[p].start, proc[p].end, proc[q].start, proc[q].end)

(***************************************************************************)
(* C2: whenever the validation of a book or cancel write fails, the call   *)
(* ends with the I/O error and the document on disk is the document        *)
(* before the write.                                                       *)
(***************************************************************************)
C2_RejectedWriteRestored ==
    \A p \in Callers :
        (proc[p].pc = "exit" /\ proc[p].result = "io") => disk = proc[p].pre

(***************************************************************************)
(* C3: after a book or cancel call has ended, whatever its outcome, the    *)
(* lock directory it created no longer exists.                             *)
(***************************************************************************)
C3_LockRemovedAfterCall ==
    \A p \in Callers : proc[p].pc = "done" => lock # p

(***************************************************************************)
(* C4: at most one caller at a time is inside the locked section, and      *)
(* while a caller is inside, the lock directory is the one it created: a   *)
(* waiter that gives up does not remove it.                                *)
(***************************************************************************)
InSection(p) ==
    proc[p].pc \in {"waitfile", "load", "backup", "replace", "validate", "exit"}

C4_OneWriterInside ==
    /\ Cardinality({p \in Callers : InSection(p)}) <= 1
    /\ \A p \in Callers : InSection(p) => lock = p

\* a waiter gave up with the Timeout while the other caller was writing
C4_WaiterGaveUp ==
    \E p \in Callers, q \in Callers :
        /\ p # q
        /\ proc[p].pc \in {"replace", "validate"}
        /\ proc[q].pc = "done" /\ proc[q].result = "lock_timeout"

(***************************************************************************)
(* C5: book followed immediately by cancel with the returned id leaves     *)
(* every cell that book marked empty again.                                *)
(***************************************************************************)
\* p's cancel returned, and it cancelled the id p's previous call, a book,
\* had returned; no other log row carries that id
CancelledOwnBooking(p) ==
    /\ CancelReturned(p)
    /\ proc[p].prev # NoBooking
    /\ proc[p].prev.id = proc[p].booking_id
    /\ Cardinality({r \in 1..Len(disk.log) : disk.log[r].id = proc[p].booking_id}) = 1

C5_BookThenCancelRestores ==
    \A p \in Callers :
        CancelledOwnBooking(p) =>
            ~RangeBusy(disk, proc[p].prev.device, proc[p].prev.start, proc[p].prev.end)

(***************************************************************************)
(* C6: book on a range for which any cell is non-empty raises the conflict *)
(* error and changes nothing: the document and the lock directory are as   *)
(* before.  The statement as claimed takes any non-empty cell of the       *)
(* range; the amended one takes a non-empty cell in a month up to which    *)
(* every month of the range resolves.                                      *)
(***************************************************************************)
\* the availability check of p's book is answered and the call goes on or ends
Checked(p) == proc[p].pc = "check" /\ proc'[p].pc # "check"

ConflictRaised(p) ==
    /\ proc'[p].pc = "done" /\ proc'[p].result = "conflict"
    /\ disk' = disk
    /\ lock' = lock

\* a non-empty cell lies in a month that resolves, as do all months before it
BusyBeforeFailure(doc, device_name, start_date, end_date) ==
    \E ym \in MonthsOf(start_date, end_date) :
        /\ MonthHasBooking(doc, device_name, ym, start_date, end_date)
        /\ ResolvesUpTo(doc, device_name, ym, start_date, end_date)

C6_AnyBusyCellConflicts ==
    [][\A p \in Callers :
          (Checked(p) /\ RangeBusy(disk, proc[p].device, proc[p].start, proc[p].end))
          => ConflictRaised(p)]_vars

C6_BusyRangeConflicts ==
    [][\A p \in Callers :
          (Checked(p) /\ BusyBeforeFailure(disk, proc[p].device, proc[p].start,
                                           proc[p].end))
          => ConflictRaised(p)]_vars

\* a book over three months ended with the conflict error on a busy range
C6_ConflictOnBusyRange ==
    \E p \in Callers :
        /\ proc[p].op = "book" /\ proc[p].pc = "done" /\ proc[p].result = "conflict"
        /\ Cardinality(MonthsOf(proc[p].start, proc[p].end)) = 3
        /\ BusyBeforeFailure(disk, proc[p].device, proc[p].start, proc[p].end)

(***************************************************************************)
(* C7: check_availability returns true for a device whose cells over the   *)
(* range are all empty, and after a successful book it returns false for   *)
(* every range that shares a day with the booked one.  The amended         *)
(* statement: it never returns true for such a range, and returns false    *)
(* when the months of the asked range up to a shared day all resolve.      *)
(***************************************************************************)
TrueWhenFree(p) ==
    (proc[p].pc = "check"
     /\ RangeFree(disk, proc[p].device, proc[p].start, proc[p].end))
    => check_availability(disk, proc[p].device, proc[p].start, proc[p].end) = "true"

\* the ranges that share a day with the range p booked
Overlapping(p) ==
    {r \in BookRanges : SharesDay(r[1], r[2], proc[p].start, proc[p].end)}

\* a month of r with a day p booked, up to which the months of r resolve
ResolvesToSharedDay(p, r) ==
    \E ym \in MonthsOf(r[1], r[2]) :
        /\ DaysOn(ym, r[1], r[2]) \cap DaysOn(ym, proc[p].start, proc[p].end) # {}
        /\ ResolvesUpTo(disk, proc[p].device, ym, r[1], r[2])

\* what check_availability answers for each range that overlaps p's
Answers(p) ==
    {<<r, check_availability(disk, proc[p].device, r[1], r[2])>> : r \in Overlapping(p)}

ValueAt(doc, sheet_name, k) ==
    IF k \in DOMAIN doc.cells[sheet_name] THEN doc.cells[sheet_name][k] ELSE NoneV

MarkedOnEveryPage(p) ==
    \A ym \in MonthsOf(proc[p].start, proc[p].end) :
        /\ MonthResolves(disk, proc[p].device, ym, proc[p].start, proc[p].end)
        /\ \A k \in CellsOn(disk, proc[p].device, ym, proc[p].start, proc[p].end) :
              ValueAt(disk, PageOf(ym), k) = StrV(Marker(proc[p].booking_id))

NoMarkerLeft(p) ==
    \A ym \in MonthsOf(proc[p].prev.start, proc[p].prev.end) :
        \A k \in DOMAIN disk.cells[PageOf(ym)] :
            disk.cells[PageOf(ym)][k] # StrV(Marker(proc[p].booking_id))

C8_CrossMonthMarkedThenCleared ==
    \A p \in Callers :
        /\ (BookReturned(p)
            /\ Cardinality(MonthsOf(proc[p].start, proc[p].end)) >= 2)
           => MarkedOnEveryPage(p)
        /\ (CancelledOwnBooking(p)
            /\ Cardinality(MonthsOf(proc[p].prev.start, proc[p].prev.end)) >= 2)
           => NoMarkerLeft(p)

(***************************************************************************)
(* C9: a successful book writes 'C:' + id into exactly the cells of the    *)
(* device's row in the column of each day of the range, and appends one    *)
(* log row with the id, the user's name, extension and employee id ('' if  *)
(* absent), the device, the ISO dates and the booked status; the rows      *)
(* already in the log are unchanged.                                       *)
(***************************************************************************)
\* the cells of the page sheet_name that belong to p's range
TargetCells(p, sheet_name) ==
    UNION {CellsOn(disk, proc[p].device, ym, proc[p].start, proc[p].end) :
             ym \in {m \in MonthsOf(proc[p].start, proc[p].end) : PageOf(m) = sheet_name}}

OnlyRangeCellsWritten(p) ==
    /\ SheetNames(disk) = SheetNames(proc[p].pre)
    /\ \A sheet_name \in SheetNames(disk) :
          \E target \in {TargetCells(p, sheet_name)} :
              /\ target \subseteq DOMAIN disk.cells[sheet_name]
              /\ \A k \in DOMAIN disk.cells[sheet_name]
                           \cup DOMAIN proc[p].pre.cells[sheet_name] :
                    IF k \in target
                    THEN ValueAt(disk, sheet_name, k) = StrV(Marker(proc[p].booking_id))
                    ELSE ValueAt(disk, sheet_name, k) = ValueAt(proc[p].pre, sheet_name, k)
    /\ \A ym \in MonthsOf(proc[p].start, proc[p].end) :
          MonthResolves(disk, proc[p].device, ym, proc[p].start, proc[p].end)

\* the user's field, '' when the key is absent
Field(user_info, key) == IF key \in DOMAIN user_info THEN user_info[key] ELSE <<>>

OneLogRowAppended(p) ==
    /\ disk.hasLog
    /\ Len(disk.log) = Len(proc[p].pre.log) + 1
    /\ SubSeq(disk.log, 1, Len(proc[p].pre.log)) = proc[p].pre.log
    /\ disk.log[Len(disk.log)].id = proc[p].booking_id
    /\ disk.log[Len(disk.log)].name = Field(proc[p].user, "name")
    /\ disk.log[Len(disk.log)].extension = Field(proc[p].user, "extension")
    /\ disk.log[Len(disk.log)].employee_id = Field(proc[p].user, "employee_id")
    /\ disk.log[Len(disk.log)].device = proc[p].device
    /\ strptime(disk.log[Len(disk.log)].start) = [ok |-> TRUE, date |-> proc[p].start]
    /\ strptime(disk.log[Len(disk.log)].end) = [ok |-> TRUE, date |-> proc[p].end]
    /\ disk.log[Len(disk.log)].status = <<"booked">>

CancelledRow(p) ==
    proc[p].pre.log[FindBookingRow(proc[p].pre.log, proc[p].booking_id)]

\* the cell k of the page belongs to the booking of the log row
OwnCell(p, row, sheet_name, k) ==
    /\ \E ym \in MonthsOf(strptime(row.start).date, strptime(row.end).date) :
          /\ PageOf(ym) = sheet_name
          /\ _normalize_header_day(CellValue(Sheet(proc[p].pre, sheet_name), 8, k[2]))
                \cap DaysOn(ym, strptime(row.start).date, strptime(row.end).date) # {}
    /\ k[1] = _find_device_row(Sheet(proc[p].pre, sheet_name), row.device)
    /\ ValueAt(proc[p].pre, sheet_name, k).t = "str"
    /\ StartsWith(ValueAt(proc[p].pre, sheet_name, k).s, Marker(proc[p].booking_id))

C10_CancelClearsOnlyOwnCells ==
    \A p \in Callers :
        CancelReturned(p) =>
            /\ SheetNames(disk) = SheetNames(proc[p].pre)
            /\ \A sheet_name \in SheetNames(disk) :
                  \A k \in DOMAIN proc[p].pre.cells[sheet_name]
                           \cup DOMAIN disk.cells[sheet_name] :
                      ValueAt(disk, sheet_name, k) # ValueAt(proc[p].pre, sheet_name, k)
                      => /\ ValueAt(disk, sheet_name, k) = NoneV
                         /\ OwnCell(p, CancelledRow(p), sheet_name, k)

\* a cancel returned that emptied cells and left another booking's marker
C10_ClearedBesideOtherBooking ==
    \E p \in Callers :
        /\ CancelReturned(p)
        /\ disk.cells # proc[p].pre.cells
        /\ \E sheet_name \in SheetNames(disk) : DOMAIN disk.cells[sheet_name] # {}

(***************************************************************************)
(* C11: find_available_device never returns a device that has a non-empty  *)
(* cell on a day of the requested range, on any month page of the range.   *)
(***************************************************************************)
FindReturned(p) ==
    proc[p].op = "find" /\ proc[p].pc = "done" /\ proc[p].result = "ok"

C11_FoundDeviceHasNoBusyCell ==
    \A p \in Callers :
        (FindReturned(p) /\ proc[p].found # <<>>)
        => ~RangeBusy(disk, proc[p].found, proc[p].start, proc[p].end)

\* a search returned the second device while the first one was booked on a
\* day of the range
C11_FoundBesideBusyDevice ==
    \E p \in Callers :
        /\ FindReturned(p)
        /\ proc[p].found = DevB
        /\ RangeBusy(disk, DevA, proc[p].start, proc[p].end)

(***************************************************************************)
(* C12: the device find_available_device returns is the first one, in row  *)
(* order of the start month's page, whose name begins with the prefix and  *)
(* whose cells all exist and are empty over the range; it returns none     *)
(* only when no such device is on that page.                               *)
(***************************************************************************)
\* column B of the start month's page, from row 9 on
StartPageNames(p) ==
    Layout(disk.layout)[PageOf(<<proc[p].start.y, proc[p].start.m>>)].names

\* the rows of prefix-matching devices that are free over the whole range
AvailableRows(p, names) ==
    {r \in 1..Len(names) :
        /\ names[r].t = "str"
        /\ names[r].s # <<>>
        /\ StartsWith(names[r].s, proc[p].device_type)
        /\ RangeFree(disk, names[r].s, proc[p].start, proc[p].end)}

FirstAvailableFound(p, names, rows) ==
    IF proc[p].found = <<>> THEN rows = {}
    ELSE rows # {} /\ names[Min(rows)].s = proc[p].found

C12_FirstAvailableCandidate ==
    \A p \in Callers :
        FindReturned(p) =>
            \E names \in {StartPageNames(p)} :
                FirstAvailableFound(p, names, AvailableRows(p, names))

\* a search for a prefix that both devices match returned the second one
C12_SecondCandidateFound ==
    \E p \in Callers :
        /\ FindReturned(p)
        /\ proc[p].device_type = <<"F", "E">>
        /\ proc[p].found = DevB

(***************************************************************************)
(* C13: every lock acquisition ends, with the lock acquired or with the    *)
(* Timeout error, whether the lock directory stays held by another writer  *)
(* or the file stays in use; no book or cancel call waits for ever.        *)
(***************************************************************************)
Acquiring(p) == proc[p].pc \in {"mkdir", "waitfile"}

Acquired(p) == proc[p].pc = "load" /\ lock = p

TimedOut(p) ==
    proc[p].pc = "done" /\ proc[p].result \in {"lock_timeout", "file_timeout"}

C13_LockAcquisitionEnds ==
    \A p \in Callers : Acquiring(p) ~> (Acquired(p) \/ TimedOut(p))

\* one call gave up waiting for the file, and the next one gave up waiting
\* for the lock directory that call left behind
C13_BothTimeoutsRaised ==
    \E p \in Callers, q \in Callers :
        /\ proc[p].pc = "done" /\ proc[p].result = "file_timeout"
        /\ proc[q].pc = "done" /\ proc[q].result = "lock_timeout"

(***************************************************************************)
(* C14: cancel with a booking id that no log row carries raises the        *)
(* not-found error, leaves the document as it was and removes the lock     *)
(* directory.                                                              *)
(***************************************************************************)
\* p's cancel loads a document in which no log row carries the id
LoadsUnknownId(p) ==
    /\ proc[p].op = "cancel"
    /\ proc[p].pc = "load" /\ proc'[p].pc # "load"
    /\ Loadable(disk)
    /\ \A r \in 1..Len(disk.log) : disk.log[r].id # proc[p].booking_id

\* p leaves the locked section with the not-found error
LeavesNotFound(p) ==
    /\ proc[p].op = "cancel"
    /\ proc[p].pc = "exit" /\ proc[p].result = "notfound"
    /\ proc'[p].pc = "done"

C14_UnknownIdNotFound ==
    [][\A p \in Callers :
          /\ LoadsUnknownId(p) =>
                (proc'[p].pc = "exit" /\ proc'[p].result = "notfound" /\ disk' = disk)
          /\ LeavesNotFound(p) => (disk' = disk /\ lock' # p)]_vars

(***************************************************************************)
(* C15: check_availability raises a lookup error whenever a month of the   *)
(* range has no page, no row of the device or no header column for a day   *)
(* of the range, and returns a boolean only when every month resolves.     *)
(* The amended statement: the first month, in order, that does not resolve *)
(* or holds a non-empty cell decides; it raises the lookup error when no   *)
(* earlier month holds a non-empty cell, returns true only when every      *)
(* month resolves, and false only when every month up to one with a        *)
(* non-empty cell resolves.                                                *)
(***************************************************************************)
CheckAnswered(p) ==
    proc[p].op = "check" /\ proc[p].pc = "done" /\ Loadable(disk)

LookupErrors == {"nosheet", "nodevice", "noday"}

\* the months of p's range that do not resolve
Unresolved(p) ==
    {ym \in MonthsOf(proc[p].start, proc[p].end) :
        ~MonthResolves(disk, proc[p].device, ym, proc[p].start, proc[p].end)}

\* a month of the range before ym holds a non-empty cell of the device
BusyBefore(p, ym) ==
    \E ym2 \in MonthsOf(proc[p].start, proc[p].end) :
        /\ ym2 # ym /\ NotAfter(ym2, ym)
        /\ MonthHasBooking(disk, proc[p].device, ym2, proc[p].start, proc[p].end)

ListReturned(p) ==
    proc[p].op = "list" /\ proc[p].pc = "done" /\ proc[p].result = "ok"

\* the log rows the identity of p's call matches
MatchedRows(p) ==
    {r \in 1..Len(disk.log) :
        /\ disk.hasLog
        /\ disk.log[r].status = <<"booked">>
        /\ \E key \in {"name", "extension", "employee_id"} :
              /\ Field(proc[p].user, key) # <<>>
              /\ disk.log[r][key] = Field(proc[p].user, key)}

\* the i-th row of a set of rows, in log order
NthRow(rows, i) == CHOOSE r \in rows : Cardinality({q \in rows : q < r}) = i - 1

ItemsAreRows(p, rows) ==
    /\ Len(proc[p].items) = Cardinality(rows)
    /\ \A i \in 1..Len(proc[p].items) :
          \E row \in {disk.log[NthRow(rows, i)]} :
              /\ proc[p].items[i].booking_id = row.id
              /\ proc[p].items[i].device_name = row.device
              /\ proc[p].items[i].start_date = row.start
              /\ proc[p].items[i].end_date = row.end

C16_ListsExactlyMatchingRows ==
    \A p \in Callers : ListReturned(p) => ItemsAreRows(p, MatchedRows(p))

(***************************************************************************)
(* C17: with the 'com' write backend, book and cancel have the outcome of  *)
(* the default backend for every document and input: the same cells marked *)
(* or cleared, the same log row, the conflict error when a cell of the     *)
(* range is booked, the not-found error for an unknown id.                 *)
(***************************************************************************)
\* what the default book does with the document: the availability check,
\* then the edit, which is saved only when nothing was raised
DefaultBooked(pre, verdict, edit) ==
    IF verdict = "false" THEN [result |-> "conflict", doc |-> pre]
    ELSE IF verdict # "true" THEN [result |-> verdict, doc |-> pre]
    ELSE IF edit.err # "" THEN [result |-> edit.err, doc |-> pre]
    ELSE [result |-> "ok", doc |-> edit.wb]

DefaultBook(pre, c) ==
    DefaultBooked(pre, check_availability(pre, c.device, c.start, c.end),
                  BookEdit(pre, c.booking_id, c.device, c.start, c.end, c.user))

\* what the default cancel does with the document
DefaultCancelled(pre, edit) ==
    IF ~Loadable(pre) THEN [result |-> "unreadable", doc |-> pre]
    ELSE IF edit.err # "" THEN [result |-> edit.err, doc |-> pre]
    ELSE [result |-> "ok", doc |-> edit.doc]

DefaultCancel(pre, c) == DefaultCancelled(pre, CancelEdit(pre, c.booking_id))

SameOutcome(p, outcome) ==
    proc[p].result = outcome.result /\ disk = outcome.doc

C17_ComSameAsDefault ==
    \A p \in Callers :
        /\ proc[p].op = "com_book" => SameOutcome(p, DefaultBook(proc[p].pre, proc[p]))
        /\ proc[p].op = "com_cancel" =>
              SameOutcome(p, DefaultCancel(proc[p].pre, proc[p]))

(***************************************************************************)
(* The conversation, for C18 to C20.                                       *)
(***************************************************************************)
\* this step is the arrival of a request
Requested == session'.tick # session.tick

\* the dictionary after: key holds value, the other keys are as before
Holds(before, after, key, value) ==
    /\ DOMAIN after = DOMAIN before \cup {key}
    /\ after[key] = value
    /\ \A k \in DOMAIN before \ {key} : after[k] = before[k]

\* the step stores the request's text under key and moves to next
StoresText(key, next) ==
    /\ session'.state = next
    /\ Holds(session.user_info, session'.user_info, key, session'.text.s)

\* the user_info already holds the three fields
HasAllThree(user_info) ==
    \A k \in {"name", "extension", "employee_id"} : Field(user_info, k) # <<>>

AsksUserInfo(state) ==
    state \in {"", "AWAITING_USER_INFO_NAME", "AWAITING_USER_INFO_EXTENSION",
               "AWAITING_USER_INFO_EMPLOYEE_ID"}

\* the steps of the claim: from the start to the name, then one step per
\* non-empty text
UserInfoStep ==
    /\ session.state = "" => session'.state = "AWAITING_USER_INFO_NAME"
    /\ session.state = "AWAITING_USER_INFO_NAME" /\ Truthy(session'.text)
          => StoresText("name", "AWAITING_USER_INFO_EXTENSION")
    /\ session.state = "AWAITING_USER_INFO_EXTENSION" /\ Truthy(session'.text)
          => StoresText("extension", "AWAITING_USER_INFO_EMPLOYEE_ID")
    /\ session.state = "AWAITING_USER_INFO_EMPLOYEE_ID" /\ Truthy(session'.text)
          => StoresText("employee_id", "AWAITING_COMMAND")

(***************************************************************************)
(* C18, as claimed: a conversation that starts with a null or absent state *)
(* moves to AWAITING_USER_INFO_NAME, then to AWAITING_USER_INFO_EXTENSION, *)
(* AWAITING_USER_INFO_EMPLOYEE_ID and AWAITING_COMMAND, one step per       *)
(* non-empty text, and stores that text as name, extension and employee_id *)
(* while the fields stored earlier are kept.                               *)
(***************************************************************************)
C18_UserInfoAskedInOrder == [][Requested => UserInfoStep]_vars

(***************************************************************************)
(* C18, amended: the conversation moves and stores as claimed unless the   *)
(* user_info of the request already holds name, extension and employee_id; *)
(* such a request, in any of the four states, moves to AWAITING_COMMAND at *)
(* once and stores nothing.                                                *)
(***************************************************************************)
C18_AskedInOrderUnlessComplete ==
    [][Requested /\ AsksUserInfo(session.state) =>
          IF HasAllThree(session.user_info)
          THEN /\ session'.state = "AWAITING_COMMAND"
               /\ session'.user_info = session.user_info
          ELSE UserInfoStep]_vars

\* a conversation that began without user info has stored three texts, a
\* blank among them, and is asked for a command
C18_ThreeTextsStored ==
    /\ session.given = NoUser
    /\ session.state = "AWAITING_COMMAND"
    /\ HasAllThree(session.user_info)
    /\ session.user_info["extension"] = <<" ">>
    /\ session.text = TextReserve

\* the request's text without the blanks around it ('' for no text)
Typed == IF session'.text.t = "str" THEN Strip(session'.text.s) ELSE <<>>

\* the step stores value under key in the context and moves to next
StoresInContext(key, value, next) ==
    /\ session'.state = next
    /\ Holds(session.context, session'.context, key, value)

\* the context after holds the three entries of the reservation beside what
\* it held before
HoldsReservation(before, after, device, start_date, end_date) ==
    /\ DOMAIN after = DOMAIN before \cup {"candidate_device", "start_date", "end_date"}
    /\ after["candidate_device"] = device
    /\ after["start_date"] = start_date
    /\ after["end_date"] = end_date
    /\ \A k \in DOMAIN before \ {"candidate_device", "start_date", "end_date"} :
          after[k] = before[k]

\* the search for the dates of TextDates, 2024-12-30 and 2024-12-31
Searched ==
    find_available_device(disk, Field(session.context, "device_type"),
                          Date(2024, 12, 30), Date(2024, 12, 31))

(***************************************************************************)
(* C19: in the reservation flow, the text '予約' in AWAITING_COMMAND sets   *)
(* the context's intent to reserve and moves to AWAITING_DEVICE_TYPE; a    *)
(* device type (the text without the blanks around it) that is not empty   *)
(* is stored in the context and moves to AWAITING_DATES; two valid dates   *)
(* with a comma between them for which find_available_device returns a     *)
(* device store candidate_device and the ISO start_date and end_date in    *)
(* the context and move to CONFIRM_RESERVATION.                            *)
(***************************************************************************)
C19_ReservationFlow ==
    [][Requested =>
          /\ session.state = "AWAITING_COMMAND" /\ session'.text = TextReserve
                => StoresInContext("intent", <<"reserve">>, "AWAITING_DEVICE_TYPE")
          /\ (/\ session.state = "AWAITING_DEVICE_TYPE"
              /\ Field(session.context, "intent") = <<"reserve">>
              /\ Typed # <<>>)
                => StoresInContext("device_type", Typed, "AWAITING_DATES")
          /\ (/\ session.state = "AWAITING_DATES"
              /\ Field(session.context, "intent") = <<"reserve">>
              /\ session'.text = TextDates
              /\ Searched.err = "" /\ Searched.device # <<>>)
                => /\ session'.state = "CONFIRM_RESERVATION"
                   /\ HoldsReservation(session.context, session'.context,
                         Searched.device,
                         <<"2", "0", "2", "4", "-", "1", "2", "-", "3", "0">>,
                         <<"2", "0", "2", "4", "-", "1", "2", "-", "3", "1">>)]_vars

\* the three steps were made: on a document where FE-A is booked on the
\* dates, FE-B waits for confirmation
C19_SecondDeviceToConfirm ==
    /\ session.state = "CONFIRM_RESERVATION"
    /\ session.text = TextDates
    /\ Field(session.context, "intent") = <<"reserve">>
    /\ Field(session.context, "device_type") = <<"F", "E">>
    /\ Field(session.context, "candidate_device") = DevB

\* the steps of the cancel flow up to the booking id
CancelStep(stored, typed) ==
    /\ session.state = "AWAITING_COMMAND" /\ session'.text = TextCancel
          => StoresInContext("intent", <<"cancel">>, "AWAITING_CANCEL_BOOKING_ID")
    /\ (/\ session.state = "AWAITING_CANCEL_BOOKING_ID"
        /\ Field(session.context, "intent") = <<"cancel">>)
          => IF typed # <<>>
             THEN StoresInContext("booking_id", stored, "CANCEL_CONFIRM")
             ELSE session'.state = "AWAITING_CANCEL_BOOKING_ID"

(***************************************************************************)
(* C20, as claimed: in the cancel flow, the text 'キャンセル' in             *)
(* AWAITING_COMMAND sets the context's intent to cancel and moves to       *)
(* AWAITING_CANCEL_BOOKING_ID; a non-empty text in that state is stored as *)
(* the context's booking_id and moves to CANCEL_CONFIRM, and an empty text *)
(* stays in AWAITING_CANCEL_BOOKING_ID.                                    *)
(***************************************************************************)
C20_CancelFlowAnyText ==
    [][Requested => CancelStep(TextOr(session'.text), TextOr(session'.text))]_vars

(***************************************************************************)
(* C20, amended: a text that is not empty once the blanks around it are    *)
(* removed is stored, without those blanks, as the context's booking_id    *)
(* and moves to CANCEL_CONFIRM; an empty or blank text stays in            *)
(* AWAITING_CANCEL_BOOKING_ID.  The first step is as claimed.              *)
(***************************************************************************)
C20_CancelFlowStrippedText == [][Requested => CancelStep(Typed, Typed)]_vars

\* a booking id typed with a blank behind it waits, stripped, for confirmation
C20_StrippedIdToConfirm ==
    /\ session.state = "CANCEL_CONFIRM"
    /\ session.text = StrV(IdA \o <<" ">>)
    /\ Field(session.context, "intent") = <<"cancel">>
    /\ Field(session.context, "booking_id") = IdA

\* the request is in the confirmation state with its intent
Confirming(state, intent) ==
    session.state = state /\ Field(session.context, "intent") = intent

\* the step calls neither book nor cancel
NoCall == calls' = calls /\ proc' = proc /\ disk' = disk

\* the step is the call of book with the context's device and dates and
\* the request's user_info
BookCalled ==
    /\ calls' = calls + 1
    /\ proc'["c1"].op = "book"
    /\ proc'["c1"].device = Field(session.context, "candidate_device")
    /\ strftime(proc'["c1"].start) = Field(session.context, "start_date")
    /\ strftime(proc'["c1"].end) = Field(session.context, "end_date")
    /\ proc'["c1"].user = session.user_info

\* the step is the response to a request that waited for its call
Responds == session.pc = "calling" /\ session'.pc = "idle"

(***************************************************************************)
(* C21: in CONFIRM_RESERVATION with intent reserve, 'はい' calls book once  *)
(* with the context's candidate device, start date and end date and the    *)
(* request's user_info, the reply carries the booking id that book         *)
(* returned and the next state is AWAITING_COMMAND; 'いいえ' moves to        *)
(* AWAITING_COMMAND and any other text stays in CONFIRM_RESERVATION, both  *)
(* without a call of book.                                                 *)
(***************************************************************************)
C21_ConfirmReservation ==
    [][/\ Requested /\ Confirming("CONFIRM_RESERVATION", <<"reserve">>) =>
             IF session'.text = TextYes THEN BookCalled
             ELSE IF session'.text = TextNo
             THEN session'.state = "AWAITING_COMMAND" /\ NoCall
             ELSE session'.state = "CONFIRM_RESERVATION" /\ NoCall
       /\ session.pc = "calling" /\ ~Responds => calls' = calls
       /\ Responds /\ proc["c1"].op = "book" =>
             /\ session'.state = "AWAITING_COMMAND"
             /\ calls' = calls
             /\ proc["c1"].result = "ok" =>
                   /\ session'.reply.kind = "booked"
                   /\ session'.reply.id = proc["c1"].booking_id
                   /\ disk.log[Len(disk.log)].id = session'.reply.id]_vars

\* 'はい' was answered with the id of the booking now in the log
C21_BookedFromChat ==
    /\ session.state = "AWAITING_COMMAND"
    /\ session.text = TextYes
    /\ session.reply.kind = "booked"
    /\ disk.hasLog /\ Len(disk.log) > 0
    /\ disk.log[Len(disk.log)].id = session.reply.id
    /\ disk.log[Len(disk.log)].device = DevB

(***************************************************************************)
(* C22: in CANCEL_CONFIRM with intent cancel, 'はい' calls cancel once with *)
(* the context's booking_id and the next state is AWAITING_COMMAND; 'いいえ' *)
(* moves to AWAITING_COMMAND and any other text stays in CANCEL_CONFIRM,   *)
(* both without a call of cancel.                                          *)
(***************************************************************************)
C22_ConfirmCancel ==
    [][/\ Requested /\ Confirming("CANCEL_CONFIRM", <<"cancel">>) =>
             IF session'.text = TextYes
             THEN /\ calls' = calls + 1
                  /\ proc'["c1"].op = "cancel"
                  /\ proc'["c1"].booking_id = Field(session.context, "booking_id")
             ELSE IF session'.text = TextNo
             THEN session'.state = "AWAITING_COMMAND" /\ NoCall
             ELSE session'.state = "CANCEL_CONFIRM" /\ NoCall
       /\ session.pc = "calling" /\ ~Responds => calls' = calls
       /\ Responds /\ proc["c1"].op = "cancel" =>
             session'.state = "AWAITING_COMMAND" /\ calls' = calls]_vars

\* 'はい' was answered after cancel cleared the cells of the booking that the
\* context named, on a document with a booking
C22_CancelledFromChat ==
    /\ session.state = "AWAITING_COMMAND"
    /\ session.text = TextYes
    /\ session.reply.kind = "cancelled"
    /\ proc["c1"].op = "cancel" /\ proc["c1"].booking_id = IdA
    /\ disk.cells = EmptyGrid
    /\ Len(disk.log) > 0

\* the period a text of two dates names
PeriodOf(text) ==
    IF text = TextDates THEN <<Date(2024, 12, 30), Date(2024, 12, 31)>>
    ELSE <<Date(2025, 1, 31), Date(2025, 2, 1)>>

\* the search of the document for the context's device type and a period
SearchedFor(period) ==
    find_available_device(disk, Field(session.context, "device_type"),
                          period[1], period[2])

\* the text is not two dates, or the search raises or finds no device
NoCandidate(text, found) ==
    \/ text \notin {TextDates, TextDatesLong}
    \/ found.err # ""
    \/ found.device = <<>>

(***************************************************************************)
(* C23: in AWAITING_DATES with intent reserve, a text that is not two      *)
(* dates with a comma between them, or a period for which                  *)
(* find_available_device returns None or raises, keeps the next state at   *)
(* AWAITING_DATES and adds no candidate_device to the context.             *)
(***************************************************************************)
C23_NoCandidateAsksAgain ==
    [][/\ Requested /\ Confirming("AWAITING_DATES", <<"reserve">>)
       /\ NoCandidate(session'.text, SearchedFor(PeriodOf(session'.text)))
       => /\ session'.state = "AWAITING_DATES"
          /\ "candidate_device" \notin DOMAIN session'.context]_vars

\* the search raised: FE-A is booked and FE-B has no row on the February page
C23_SearchRaised ==
    /\ session.state = "AWAITING_DATES"
    /\ session.text = TextDatesLong
    /\ Field(session.context, "intent") = <<"reserve">>
    /\ SearchedFor(PeriodOf(TextDatesLong)).err = "nodevice"

(***************************************************************************)
(* C24: when book or cancel raises during a confirmed 'はい' step, the     *)
(* request is still answered with status 200, a reply that carries the     *)
(* error, next state AWAITING_COMMAND and an empty context.                *)
(***************************************************************************)
C24_ErrorAnswered ==
    [][Responds /\ proc["c1"].result # "ok"
       => /\ session'.status = "200"
          /\ session'.reply.kind = "error"
          /\ session'.reply.err = proc["c1"].result
          /\ session'.state = "AWAITING_COMMAND"
          /\ session'.context = NoContext]_vars

\* book raised in a confirmed reservation and the request was answered
C24_BookErrorAnswered ==
    /\ session.pc = "idle"
    /\ session.text = TextYes
    /\ session.reply.kind = "error"
    /\ proc["c1"].op = "book" /\ proc["c1"].pc = "done"
    /\ proc["c1"].result # "ok"

\* the caller moves on to the step named
Enters(p, pc) == proc'[p].pc = pc /\ proc[p].pc # pc

\* the caller leaves the step named
Leaves(p, pc) == proc[p].pc = pc /\ proc'[p].pc # pc

\* the order of the steps of one execution
StepsInOrder(p) ==
    /\ Enters(p, "load") => proc[p].pc = "waitfile" /\ lock = p
    /\ Enters(p, "backup") => proc[p].pc = "load" /\ disk' = disk
    /\ Enters(p, "replace") => proc[p].pc = "backup" /\ disk' = disk
    /\ Enters(p, "validate") =>
          /\ proc[p].pc = "replace"
          /\ [disk' EXCEPT !.intact = "ok"] = [proc[p].wb EXCEPT !.intact = "ok"]
    /\ Leaves(p, "validate") =>
          /\ proc'[p].pc = "exit"
          /\ disk' # disk => proc'[p].result = "io" /\ disk' = proc[p].bak
    /\ (lock = p /\ lock' # p) => proc[p].pc = "exit" /\ proc'[p].pc = "done"

(***************************************************************************)
(* C25: in every book and cancel execution of the default backend the      *)
(* steps occur in this order: lock acquired, backup copy attempted, new    *)
(* content written and renamed over the document, validation, restore from *)
(* the backup if validation failed, lock released; the lock is not         *)
(* released between the rename and the end of validation or restore.       *)
(***************************************************************************)
C25_SaveStepsInOrder ==
    [][\A p \in Callers :
          /\ StepsInOrder(p)
          /\ proc[p].pc \in {"replace", "validate"} => lock' = p]_vars

\* a booking was written, rejected by the validation and restored from the
\* backup, and the lock directory was removed afterwards
C25_RestoredThenReleased ==
    \E p \in Callers :
        /\ proc[p].op = "book" /\ proc[p].pc = "done" /\ proc[p].result = "io"
        /\ disk = DocStd
        /\ lock = ""

\* the cells of a month page that lie on the row of the device and on a
\* column whose header names one of the days
CellsOfRange(sheet_name, sheet, device_name, days) ==
    {<<sheet_name, row, col>> :
        row \in {_find_device_row(sheet, device_name)},
        col \in {c \in 3..max_column(sheet) :
                   (HeaderDay(sheet, 8, c) \cup HeaderDay(sheet, 7, c)) \cap days # {}}}

\* the cells of the range on the month pages the document has
RangeCells(device_name, start_date, end_date) ==
    UNION {CellsOfRange(PageOf(ym), Sheet(disk, PageOf(ym)), device_name,
                        DaysOn(ym, start_date, end_date)) :
             ym \in {m \in MonthsOf(start_date, end_date) : PageOf(m) \in SheetNames(disk)}}

\* the cells a log row covers: the row of its device, the days of its range
RowCovers(row) ==
    UNION {RangeCells(row.device, range[1], range[2]) :
             range \in {<<strptime(row.start).date, strptime(row.end).date>>}}

Acts(p) == proc'[p] # proc[p]

\* the caller runs check_availability, find_available_device or
\* list_cancellable_bookings
Reads(p) == proc'[p].op \in {"check", "find", "list"}

(***************************************************************************)
(* C27: in every write backend the document file is changed (replaced,     *)
(* restored or saved) only by a caller that holds the lock directory of    *)
(* the document; check_availability, find_available_device and             *)
(* list_cancellable_bookings never change the document and never create or *)
(* remove the lock directory.                                              *)
(***************************************************************************)
C27_ChangedOnlyUnderLock ==
    [][/\ disk' # disk => \E p \in Callers : Acts(p) /\ lock = p
       /\ \A p \in Callers :
             Acts(p) /\ Reads(p) => disk' = disk /\ lock' = lock]_vars

(***************************************************************************)
(* C28: book is all-or-nothing across month pages: when it fails while     *)
(* resolving the page, the device row or the day columns of a span, no     *)
(* marker of an earlier span and no log row is persisted: the document on  *)
(* disk is the one book was called on.                                     *)
(***************************************************************************)
C28_BookAllOrNothing ==
    [][\A p \in Callers :
          (/\ Acts(p)
           /\ proc'[p].op = "book"
           /\ proc'[p].pc = "check" \/ proc'[p].result \in LookupErrors)
          => disk' = disk]_vars

\* a booking from December to February failed on the February page, where
\* the device has no row, after the December and January pages resolved
C28_FailedOnThirdPage ==
    \E p \in Callers :
        /\ proc[p].op = "book" /\ proc[p].pc = "done"
        /\ proc[p].result = "nodevice"
        /\ proc[p].device = DevB
        /\ proc[p].start = Date(2024, 12, 31) /\ proc[p].end = Date(2025, 2, 1)

\* the user_info a log row was booked with
Requester(row) ==
    [name |-> row.name, extension |-> row.extension, employee_id |-> row.employee_id]

\* the bookings the listing returns for the requester of the row
ListedFor(doc, row) == Range(list_cancellable_bookings(doc, Requester(row)).items)

(***************************************************************************)
(* C29: cancel never removes or changes a log row: after cancel(id) the    *)
(* log is the one cancel found, the row for id is still present with       *)
(* status booked, and list_cancellable_bookings for its requester returns  *)
(* the booking as it did before.                                           *)
(***************************************************************************)
C29_CancelKeepsLogRow ==
    \A p \in Callers :
        CancelReturned(p) =>
            /\ disk.log = proc[p].pre.log
            /\ FindBookingRow(disk.log, proc[p].booking_id) # 0
            /\ disk.log[FindBookingRow(disk.log, proc[p].booking_id)].status = <<"booked">>
            /\ ListedFor(disk, CancelledRow(p)) = ListedFor(proc[p].pre, CancelledRow(p))
            /\ ListItem(CancelledRow(p)) \in ListedFor(disk, CancelledRow(p))

\* a cancel emptied the cells of a booking that its requester still finds
\* in the listing
C29_CancelledStillListed ==
    \E p \in Callers :
        /\ CancelReturned(p)
        /\ disk.cells # proc[p].pre.cells
        /\ CancelledRow(p).status = <<"booked">>
        /\ ListItem(CancelledRow(p)) \in ListedFor(disk, CancelledRow(p))

\* a search answered on a document that has the start month's page
FindAnswered(p) ==
    /\ proc[p].op = "find" /\ proc[p].pc = "done" /\ Loadable(disk)
    /\ PageOf(<<proc[p].start.y, proc[p].start.m>>) \in SheetNames(disk)

\* the rows of the start month's page whose name begins with the prefix
CandidateRows(p, names) ==
    {r \in 1..Len(names) :
        /\ names[r].t = "str"
        /\ names[r].s # <<>>
        /\ StartsWith(names[r].s, proc[p].device_type)}

\* the later months of the range whose page has no row of the device
MonthsWithoutRow(p, device_name) ==
    {ym \in MonthsOf(proc[p].start, proc[p].end) :
        /\ ym # <<proc[p].start.y, proc[p].start.m>>
        /\ PageOf(ym) \in SheetNames(disk)
        /\ _find_device_row(Sheet(disk, PageOf(ym)), device_name) = 0}

\* no month of the range before ym holds a non-empty cell of the device
FreeBefore(p, device_name, ym) ==
    \A ym2 \in MonthsOf(proc[p].start, proc[p].end) :
        (ym2 # ym /\ NotAfter(ym2, ym))
        => ~MonthHasBooking(disk, device_name, ym2, proc[p].start, proc[p].end)

\* the search reaches the candidate of row r and its loop reaches a month
\* without row of it
ReachesMissingRow(p, names, rows, r) ==
    /\ \E ym \in MonthsWithoutRow(p, names[r].s) : FreeBefore(p, names[r].s, ym)
    /\ \A r2 \in rows :
          r2 < r => RangeBusy(disk, names[r2].s, proc[p].start, proc[p].end)

(***************************************************************************)
(* C30: if any candidate device (a prefix match on the start month's page) *)
(* has no row on a later month page required by the range,                 *)
(* find_available_device raises a lookup error for the whole operation     *)
(* instead of skipping that candidate or returning another device.         *)
(***************************************************************************)
C30_LookupErrorForAnyCandidate ==
    \A p \in Callers :
        FindAnswered(p) =>
            \E names \in {StartPageNames(p)} :
                (\E r \in CandidateRows(p, names) : MonthsWithoutRow(p, names[r].s) # {})
                => proc[p].result \in LookupErrors

(***************************************************************************)
(* C30, amended: if a candidate device has no row on a later month page    *)
(* required by the range, none of its cells on the earlier pages of the    *)
(* range is non-empty and every candidate before it has a non-empty cell   *)
(* in the range, find_available_device raises a lookup error for the whole *)
(* operation instead of skipping that candidate or returning another       *)
(* device.                                                                 *)
(***************************************************************************)
C30_LookupErrorForReachedCandidate ==
    \A p \in Callers :
        FindAnswered(p) =>
            \E names \in {StartPageNames(p)} :
                (\E r \in CandidateRows(p, names) :
                    ReachesMissingRow(p, names, CandidateRows(p, names), r))
                => proc[p].result \in LookupErrors

\* the first candidate was booked in the range and skipped, the second one
\* has no row on the February page: the search raised
C30_RaisedForSecondCandidate ==
    \E p \in Callers :
        /\ FindAnswered(p)
        /\ proc[p].device_type = <<"F", "E">>
        /\ proc[p].result = "nodevice"
        /\ RangeBusy(disk, DevA, proc[p].start, proc[p].end)
        /\ MonthsWithoutRow(p, DevB) # {}

(***************************************************************************)
(* C31: no two log rows ever carry the same booking id: the id returned by *)
(* each successful book differs from every id already present in the log.  *)
(***************************************************************************)
C31_LogIdsDistinct ==
    \A i \in 1..Len(disk.log), j \in 1..Len(disk.log) :
        i # j => disk.log[i].id # disk.log[j].id

(***************************************************************************)
(* _iter_month_ranges applied to ranges with start <= end.                 *)
(***************************************************************************)
\* the first, a middle and the last day of every month of two years, one of
\* them a leap year
RangeDates ==
    {Date(y, m, d) : y \in {2024, 2025}, m \in 1..12, d \in {1, 15, 28, 29, 30, 31}}

\* the number of calendar months a range overlaps
MonthCount(start_date, end_date) ==
    (end_date.y * 12 + end_date.m) - (start_date.y * 12 + start_date.m) + 1

\* the ranges the splitter is given: real dates, start <= end, no more months
\* than the unrolling yields
SplitInputs ==
    {r \in RangeDates \X RangeDates :
        /\ r[1].d <= monthrange(r[1].y, r[1].m)
        /\ r[2].d <= monthrange(r[2].y, r[2].m)
        /\ DateLE(r[1], r[2])
        /\ MonthCount(r[1], r[2]) <= MaxSpans}

InitSplit ==
    /\ disk = DocStd
    /\ lock = ""
    /\ calls = 0
    /\ session = NoSession
    /\ \E r \in SplitInputs :
          proc = [p \in Callers |->
                    IF p = "c1" THEN [Idle EXCEPT !.start = r[1], !.end = r[2]]
                    ELSE Idle]

\* list(_iter_month_ranges(start_date, end_date))
CallIter(p) ==
    /\ proc[p].pc = "idle"
    /\ proc[p].start # Idle.start
    /\ proc' = [proc EXCEPT ![p].pc = "done", ![p].op = "iter",
                            ![p].items = _iter_month_ranges(proc[p].start, proc[p].end)]
    /\ UNCHANGED <<disk, lock, calls, session>>

NextSplit == CallIter("c1")

SpecSplit == InitSplit /\ [][NextSplit]_vars

\* the day after a date
NextDay(dt) ==
    IF dt.d < monthrange(dt.y, dt.m) THEN Date(dt.y, dt.m, dt.d + 1)
    ELSE IF dt.m < 12 THEN Date(dt.y, dt.m + 1, 1)
    ELSE Date(dt.y + 1, 1, 1)

\* the i-th calendar month from the month of a date on, i = 1 being its own
MonthFrom(dt, i) ==
    <<dt.y + ((dt.m - 1 + i - 1) \div 12), ((dt.m - 1 + i - 1) % 12) + 1>>

\* the pairs are one per month overlapped, adjacent, from start to end
SplitsByMonth(pairs, start_date, end_date) ==
    /\ Len(pairs) = MonthCount(start_date, end_date)
    /\ pairs[1][1] = start_date
    /\ pairs[Len(pairs)][2] = end_date
    /\ \A i \in 1..Len(pairs) :
          /\ <<pairs[i][1].y, pairs[i][1].m>> = MonthFrom(start_date, i)
          /\ <<pairs[i][2].y, pairs[i][2].m>> = MonthFrom(start_date, i)
          /\ pairs[i][1].d <= pairs[i][2].d
          /\ i > 1 => pairs[i][1].d = 1 /\ pairs[i][1] = NextDay(pairs[i - 1][2])
          /\ i < Len(pairs) => pairs[i][2].d = monthrange(pairs[i][2].y, pairs[i][2].m)

IterReturned(p) == proc[p].op = "iter" /\ proc[p].pc = "done"

(***************************************************************************)
(* C32: for start <= end, _iter_month_ranges yields a finite ordered       *)
(* sequence with one pair per calendar month overlapped: the first pair    *)
(* starts at start, the last pair ends at end, every intermediate pair     *)
(* runs from day 1 to the last day of its month, consecutive pairs are     *)
(* adjacent days with no gap or overlap, and a range inside one month      *)
(* yields exactly one pair (start, end).                                   *)
(***************************************************************************)
C32_OnePairPerMonth ==
    \A p \in Callers :
        IterReturned(p) =>
            /\ SplitsByMonth(proc[p].items, proc[p].start, proc[p].end)
            /\ (proc[p].start.y = proc[p].end.y /\ proc[p].start.m = proc[p].end.m)
               => proc[p].items = << <<proc[p].start, proc[p].end>> >>

\* a range over the leap year's February was split into three pairs, the
\* second one being the whole of February with its 29 days
C32_SplitOverLeapFebruary ==
    \E p \in Callers :
        /\ IterReturned(p)
        /\ Len(proc[p].items) = 3
        /\ proc[p].items[2] = <<Date(2024, 2, 1), Date(2024, 2, 29)>>

(***************************************************************************)
(* _get_date_columns applied to the pages of the tests' workbooks.         *)
(***************************************************************************)
\* the pages the resolver is given
ColumnPages == {PageOf(Dec24), PageOf(Jan25), PageOf(Feb25)}

\* the spans: two days of December 2024, in any order
ColumnSpans ==
    {<<Date(2024, 12, d1), Date(2024, 12, d2)>> : d1 \in 1..31, d2 \in 1..31}

\* the page is kept in the caller's found field until the call
InitColumns ==
    /\ disk \in {DocStd, DocDrift}
    /\ lock = ""
    /\ calls = 0
    /\ session = NoSession
    /\ \E sheet_name \in ColumnPages, r \in ColumnSpans :
          proc = [p \in Callers |->
                    IF p = "c1"
                    THEN [Idle EXCEPT !.start = r[1], !.end = r[2], !.found = sheet_name]
                    ELSE Idle]

\* _get_date_columns(wb[sheet_name], start_date, end_date)
CallColumns(p) ==
    /\ proc[p].pc = "idle"
    /\ proc[p].found \in ColumnPages
    /\ proc' = [proc EXCEPT ![p].pc = "done", ![p].op = "columns",
                            ![p].items = _get_date_columns(Sheet(disk, proc[p].found),
                                                           proc[p].start, proc[p].end)]
    /\ UNCHANGED <<disk, lock, calls, session>>

NextColumns == CallColumns("c1")

SpecColumns == InitColumns /\ [][NextColumns]_vars

ColumnsAnswered(p) == proc[p].op = "columns" /\ proc[p].pc = "done"

\* the rows the resolver reads a header from: row 8 and the nearby rows
HeaderRows(sheet) == {8} \cup {hdr_row \in {7, 9, 10} : hdr_row <= max_row(sheet)}

\* a cell of the column in one of the header rows normalizes to the day
NamesDay(sheet, col, day) ==
    /\ col \in 3..max_column(sheet)
    /\ \E hdr_row \in HeaderRows(sheet) : HeaderDay(sheet, hdr_row, col) = {day}

\* one column per day of the span, in day order, each naming its day
OneColumnPerDay(sheet, columns, first_day, last_day) ==
    /\ Len(columns) = (IF last_day >= first_day THEN last_day - first_day + 1 ELSE 0)
    /\ \A i \in 1..Len(columns) : NamesDay(sheet, columns[i], first_day + i - 1)

(***************************************************************************)
(* C33: _get_date_columns(page, spanStart, spanEnd) returns exactly one    *)
(* column per day of the span, in increasing day order, each being a       *)
(* column whose header cell normalizes to that day, and raises the lookup  *)
(* error when a day of the span has no such column.                        *)
(***************************************************************************)
C33_OneColumnPerDay ==
    \A p \in Callers :
        ColumnsAnswered(p) =>
            \E sheet \in {Sheet(disk, proc[p].found)} :
                /\ proc[p].items.ok =>
                      OneColumnPerDay(sheet, proc[p].items.columns,
                                      proc[p].start.d, proc[p].end.d)
                /\ ~proc[p].items.ok <=>
                      \E day \in proc[p].start.d..proc[p].end.d :
                          \A col \in 3..max_column(sheet) : ~NamesDay(sheet, col, day)

\* three days were resolved on the January page whose headers are in row 7
C33_ResolvedOnDriftedPage ==
    \E p \in Callers :
        /\ ColumnsAnswered(p)
        /\ disk.layout = "drift" /\ proc[p].found = PageOf(Jan25)
        /\ proc[p].items.ok
        /\ Len(proc[p].items.columns) = 3

(***************************************************************************)
(* _normalize_header_day applied to cell values.                           *)
(***************************************************************************)
\* the characters of the header texts
HeaderChars == {"0", "1", "3", "9", "fw2", "nichi", " "}

\* texts of up to three characters
HeaderTexts ==
    {<<>>} \cup {<<a>> : a \in HeaderChars}
    \cup {<<a, b>> : a \in HeaderChars, b \in HeaderChars}
    \cup {<<a, b, c>> : a \in HeaderChars, b \in HeaderChars, c \in HeaderChars}

\* None, integers, floats in tenths, dates and texts
HeaderValues ==
    {NoneV}
    \cup {IntV(k) : k \in -1..45}
    \cup {FloatV(tenths) : tenths \in {-15, 0, 9, 10, 15, 310, 319, 320}}
    \cup {DateV(Date(2024, 12, d)) : d \in {1, 15, 31}}
    \cup {StrV(s) : s \in HeaderTexts}

\* the value is kept in the caller's found field until the call
InitNormalize ==
    /\ disk = DocStd
    /\ lock = ""
    /\ calls = 0
    /\ session = NoSession
    /\ \E value \in HeaderValues :
          proc = [p \in Callers |->
                    IF p = "c1" THEN [Idle EXCEPT !.found = value] ELSE Idle]

\* _normalize_header_day(value)
CallNormalize(p) ==
    /\ proc[p].pc = "idle"
    /\ proc[p].found \in HeaderValues
    /\ proc' = [proc EXCEPT ![p].pc = "done", ![p].op = "normalize",
                            ![p].items = _normalize_header_day(proc[p].found)]
    /\ UNCHANGED <<disk, lock, calls, session>>

NextNormalize == CallNormalize("c1")

SpecNormalize == InitNormalize /\ [][NextNormalize]_vars

(***************************************************************************)
(* C34: _normalize_header_day returns, for every input value (integer,     *)
(* float, date or string), either None or an integer between 1 and 31.     *)
(***************************************************************************)
C34_DayBetween1And31 ==
    \A p \in Callers :
        (proc[p].op = "normalize" /\ proc[p].pc = "done")
        => proc[p].items \subseteq 1..31

\* the content passes the checks of _validate_or_restore that read it
PassesValidation(doc, expected) == ZipOk(doc) /\ SheetsOk(doc, expected)

(***************************************************************************)
(* C35: at every instant during a book or cancel, the document path holds  *)
(* either the content from before the write or content that passes         *)
(* validation, so that a reader that takes no lock never observes content  *)
(* that validation rejects.                                                *)
(***************************************************************************)
C35_PathNeverHoldsRejected ==
    \A p \in Callers :
        proc[p].pc \in {"validate", "exit"} /\ proc[p].pre # NoDoc
        => \/ disk = proc[p].pre
           \/ PassesValidation(disk, ExpectedSheets(p))

(***************************************************************************)
(* Two callers that each book once: another device, or other days of the   *)
(* same device.                                                            *)
(***************************************************************************)
\* what the second caller books beside FE-A on 2024-12-30 and 2024-12-31
DisjointBookings ==
    { <<DevB, Date(2024, 12, 30), Date(2024, 12, 31)>>,
      <<DevA, Date(2025, 1, 1), Date(2025, 1, 2)>>,
      <<DevA, Date(2024, 12, 29), Date(2024, 12, 29)>> }

NextDisjoint ==
    \/ /\ proc["c1"].op = ""
       /\ UNCHANGED session
       /\ CallBook("c1", DevA, Date(2024, 12, 30), Date(2024, 12, 31), UserOf("c1"))
    \/ /\ proc["c2"].op = ""
       /\ UNCHANGED session
       /\ \E b \in DisjointBookings : CallBook("c2", b[1], b[2], b[3], UserOf("c2"))
    \/ \E p \in Callers : Step(p)

SpecDisjoint == InitConcurrent /\ [][NextDisjoint]_vars

\* both calls have ended, each after it had the lock and without a write
\* that validation rejected or a document left unreadable by one
BothWrote ==
    \A p \in Callers :
        /\ proc[p].op = "book" /\ proc[p].pc = "done"
        /\ proc[p].result \notin {"lock_timeout", "file_timeout", "io", "unreadable"}

\* the document holds the log row of p's booking
HasLogRow(p) ==
    \E r \in 1..Len(disk.log) :
        disk.log[r] = LogRow(proc[p].booking_id, proc[p].device, proc[p].start,
                             proc[p].end, proc[p].user)

(***************************************************************************)
(* C36: two concurrent book calls on different devices, or on ranges of    *)
(* the same device that do not overlap, that both acquire the lock within  *)
(* the timeout both succeed, and after both have returned the document     *)
(* holds the marker cells and the log rows of both bookings: neither write *)
(* overwrites the other.                                                   *)
(***************************************************************************)
C36_BothBookingsKept ==
    BothWrote =>
        \A p \in Callers :
            /\ proc[p].result = "ok"
            /\ MarkedOnEveryPage(p)
            /\ HasLogRow(p)

\* both callers booked the same device on different days and returned
C36_SameDeviceOtherDays ==
    /\ BothWrote
    /\ proc["c1"].device = proc["c2"].device
    /\ proc["c2"].start = Date(2025, 1, 1)
    /\ Len(disk.log) = 2

\* this step is the start of a call of book or cancel by the chat endpoint
CallStarts(op) == calls' = calls + 1 /\ proc'["c1"].op = op

\* the request being handled is 'はい' in the given state
ConfirmedIn(state) ==
    /\ session'.pc = "calling"
    /\ session'.text = TextYes
    /\ session.state = state

ChatState ==
    {"AWAITING_COMMAND", "AWAITING_USER_INFO_NAME", "AWAITING_USER_INFO_EXTENSION",
     "AWAITING_USER_INFO_EMPLOYEE_ID", "AWAITING_DEVICE_TYPE", "AWAITING_DATES",
     "CONFIRM_RESERVATION", "COMPLETED", "CANCEL_CONFIRM"}

(***************************************************************************)
(* C38: every next_state returned by the chat endpoint in a 200 response   *)
(* is non-null and is the name of a member of the ChatState enumeration.   *)
(***************************************************************************)
C38_NextStateIsChatState ==
    session.pc = "idle" /\ session.status = "200" => session.state \in ChatState

\* cancel(booking_id) has been carried out on the document: the log row is
\* there and no cell of any page holds a marker of the booking
AlreadyCancelled(doc, booking_id) ==
    /\ Loadable(doc) /\ doc.hasLog
    /\ FindBookingRow(doc.log, booking_id) # 0
    /\ \A sheet_name \in DOMAIN doc.cells :
          \A k \in DOMAIN doc.cells[sheet_name] :
              ~(/\ doc.cells[sheet_name][k].t = "str"
                /\ StartsWith(doc.cells[sheet_name][k].s, Marker(booking_id)))

\* p's cancel loads the document and runs its clearing loops in this step
CancelLoads(p) == proc[p].op = "cancel" /\ proc[p].pc = "load" /\ proc'[p].pc # "load"

(***************************************************************************)
(* C39: cancel is idempotent on the month pages.  The workbook a cancel    *)
(* saves is one a further cancel of the same id would leave as it is; a    *)
(* cancel of an id that is already cancelled succeeds and changes no cell, *)
(* in memory and in the document, also when the same device and days have  *)
(* been booked under another id in between: those markers stay.            *)
(***************************************************************************)
C39_CancelIdempotent ==
    [][\A p \in Callers :
          /\ (CancelLoads(p) /\ proc'[p].pc = "backup") =>
                CancelEdit(proc'[p].wb, proc[p].booking_id) =
                   [err |-> "", doc |-> proc'[p].wb]
          /\ (CancelLoads(p) /\ AlreadyCancelled(disk, proc[p].booking_id)) =>
                proc'[p].pc = "backup" /\ proc'[p].wb.cells = disk.cells
          /\ (/\ proc[p].op = "cancel" /\ proc[p].pc \in {"replace", "validate"}
              /\ proc'[p].pc # proc[p].pc
              /\ AlreadyCancelled(proc'[p].pre, proc[p].booking_id)) =>
                disk'.cells = proc'[p].pre.cells]_vars

\* a cancel of the id cancelled before has returned, and the markers of the
\* booking made under another id for the same device and days are in place
C39_OtherMarkersStay ==
    \E p \in Callers :
        /\ proc[p].op = "cancel" /\ proc[p].pc = "exit" /\ proc[p].result = "ok"
        /\ proc[p].booking_id = IdA
        /\ AlreadyCancelled(proc[p].pre, IdA)
        /\ Len(disk.log) = 2
        /\ disk.log[1].device = disk.log[2].device
        /\ disk.log[1].start = disk.log[2].start
        /\ disk.log[2].id = IdB
        /\ ~AlreadyCancelled(disk, IdB)
        /\ disk.cells = proc[p].pre.cells

(***************************************************************************)
(* book called with any two dates, the later one first included.           *)
(***************************************************************************)
\* a range in order, the same two days the other way round, and a range
\* whose start lies in the month after its end
OrderRanges ==
    { <<Date(2024, 12, 30), Date(2024, 12, 31)>>,
      <<Date(2024, 12, 31), Date(2024, 12, 30)>>,
      <<Date(2025, 1, 1), Date(2024, 12, 31)>> }

NextOrder ==
    \/ /\ calls < MaxCalls
       /\ UNCHANGED session
       /\ \E d \in Devices, r \in OrderRanges : CallBook("c1", d, r[1], r[2], UserOf("c1"))
    \/ Step("c1")

SpecOrder == InitConcurrent /\ [][NextOrder]_vars

\* start_date <= end_date
DateLeq(start_date, end_date) ==
    \/ start_date.y < end_date.y
    \/ start_date.y = end_date.y /\ start_date.m < end_date.m
    \/ start_date.y = end_date.y /\ start_date.m = end_date.m /\ start_date.d <= end_date.d

\* some cell of the document holds the marker of the booking
HasMarker(doc, booking_id) ==
    \E sheet_name \in DOMAIN doc.cells :
        \E k \in DOMAIN doc.cells[sheet_name] :
            doc.cells[sheet_name][k] = StrV(Marker(booking_id))

(***************************************************************************)
(* C40: every log row appended by book describes a range with start <= end *)
(* for which at least one marker cell was written; a book call whose start *)
(* date is later than its end date never reaches the save, so it writes no *)
(* cell and appends no log row, and it does not return an id.              *)
(***************************************************************************)
C40_LogRowsOrderedAndMarked ==
    /\ \A r \in 1..Len(disk.log) :
          /\ DateLeq(strptime(disk.log[r].start).date, strptime(disk.log[r].end).date)
          /\ HasMarker(disk, disk.log[r].id)
    /\ \A p \in Callers :
          (proc[p].op = "book" /\ ~DateLeq(proc[p].start, proc[p].end)) =>
              /\ proc[p].pc \notin {"backup", "replace", "validate"}
              /\ proc[p].result # "ok"

====
